---- MODULE Spec2Model ----
(***************************************************************************)
(* A model of the fastx crate's indexed random-access stack:               *)
(*   gzi.rs      GziIndex::get_compressed_offset, GziIndex::from_path      *)
(*   bgzf.rs     BgzfReader (seek_uncompressed, read, current_position)    *)
(*   fai.rs      FaiEntry, FaiIndex::from_path                             *)
(*   indexed.rs  IndexedFastXReader::fetch, fetch_range, parse_*_from_bytes*)
(*                                                                         *)
(* Conventions.                                                            *)
(*  - Rust indices are 0-based and are kept 0-based in every value the     *)
(*    model stores; only the access to a TLA+ sequence adds 1.             *)
(*  - A u64/usize that the code computes with `-` can underflow.  A debug  *)
(*    build panics there, a release build wraps modulo 2^64.  All genuine  *)
(*    magnitudes of the model are far below 2^31, so a wrapped value is    *)
(*    kept as the negative integer v that stands for 2^64 + v.             *)
(*  - Option<T> is [some |-> BOOLEAN, v |-> T].                            *)
(***************************************************************************)
EXTENDS Integers, Sequences, FiniteSets, TLC

VARIABLES
    build,      \* "debug" | "release": overflow checks on or off
    blocks,     \* the BGZF file: the decompressed payload of each block, in file order
    gzi,        \* GziIndex.entries: sequence of <<compressed, uncompressed>>
    fai,        \* FaiIndex.entries: name -> FaiEntry, as a set of entries
    reader,     \* the BgzfReader's fields
    last,       \* what the last operation was given and what it returned
    nops,       \* number of operations performed on the reader
    input,      \* the bytes handed to a loader or a parser
    loaded,     \* what the loader returned
    records,    \* the records a FASTA / FASTQ text was written from
    stream,     \* the BufReader over the text, and the iterator's done flag
    record,     \* the FastARecord / FastQRecord object
    remote,     \* the RemoteReader's fields
    net,        \* the requests the RemoteReader has issued and the bytes it has served
    pc          \* the threads inside RemoteReader::get_data_at

\* the variables of the record parsers
pvars == <<records, stream, record>>

\* the variables of the remote reader
rvars == <<remote, net, pc>>

vars == <<build, blocks, gzi, fai, reader, last, nops, input, loaded, pvars, rvars>>

(***************************************************************************)
(* Bounds of the model.                                                    *)
(***************************************************************************)
MaxLineBases == 3      \* sequence lines hold 2..MaxLineBases bases
MaxBlock     == 5      \* BGZF blocks hold MaxBlock-1 or MaxBlock decompressed bytes
SeqLenS      == 5      \* bases of the first sequence
SeqLenT      == 4      \* bases of the second sequence
MaxRead      == 3      \* a sequential read asks for 1..MaxRead bytes
MaxOps       == 2      \* operations per reader
MaxEntries   == 3      \* entries of a hand-made GZI index
MaxCoff      == 2      \* compressed offsets of a hand-made GZI index are 0..MaxCoff
MaxUoff      == 3      \* uncompressed offsets of a hand-made GZI index are 0..MaxUoff
MaxPairs     == 2      \* pairs written after the count of a .gzi byte string
MaxCount     == 3      \* small entry counts a .gzi byte string declares are 0..MaxCount
MaxLines     == 2      \* lines of a .fai text
MaxRecs      == 2      \* records of a FASTA / FASTQ text
MaxReads     == 3      \* reads from one text
MinCap       == 2      \* the smallest capacity of the BufReader over a text
MaxMembers   == 3      \* members of a BGZF file given as bytes
MaxFile      == 5      \* bytes of a remote resource
MaxBlockSize == 3      \* block sizes of a remote reader are 1..MaxBlockSize
MaxCalls     == 3      \* calls on one remote reader

\* bgzf.rs:19: a block decompresses to at most 64 KiB, so a small file is one block
BGZF_MAX_BLOCK_SIZE == 65536

NoneOpt == [some |-> FALSE, v |-> 0]
Some(x) == [some |-> TRUE, v |-> x]

Min(a, b) == IF a <= b THEN a ELSE b

(***************************************************************************)
(* The data file.  A FASTA text of two records, ">s" and ">t", whose bases *)
(* are pairwise distinct letters, wrapped at lb bases per line, every line *)
(* ended by one LF.                                                        *)
(***************************************************************************)
Letters == <<"A", "B", "C", "D", "E", "F", "G", "H", "I", "J", "K", "L", "M", "N">>
LF == "\n"

SeqS == SubSeq(Letters, 1, SeqLenS)
SeqT == SubSeq(Letters, SeqLenS + 1, SeqLenS + SeqLenT)

RECURSIVE Wrap(_, _)
Wrap(s, lb) ==
    IF s = <<>> THEN <<>>
    ELSE IF Len(s) <= lb THEN s \o <<LF>>
    ELSE SubSeq(s, 1, lb) \o <<LF>> \o Wrap(SubSeq(s, lb + 1, Len(s)), lb)

FastaText(lb) ==
    <<">", "s", LF>> \o Wrap(SeqS, lb) \o <<">", "t", LF>> \o Wrap(SeqT, lb)

\* What `samtools faidx` writes for FastaText(lb).
FaidxOf(lb) ==
    { [name |-> "s", length |-> SeqLenS, offset |-> 3,
       line_bases |-> lb, line_width |-> lb + 1],
      [name |-> "t", length |-> SeqLenT, offset |-> 3 + Len(Wrap(SeqS, lb)) + 3,
       line_bases |-> lb, line_width |-> lb + 1] }

\* The text cut into blocks of bs bytes, with the empty end-of-file block
\* bgzip appends when eofBlock holds.
RECURSIVE Chunk(_, _)
Chunk(s, bs) ==
    IF s = <<>> THEN <<>>
    ELSE IF Len(s) <= bs THEN <<s>>
    ELSE <<SubSeq(s, 1, bs)>> \o Chunk(SubSeq(s, bs + 1, Len(s)), bs)

BgzipOf(text, bs, eofBlock) ==
    Chunk(text, bs) \o (IF eofBlock THEN << <<>> >> ELSE <<>>)

RECURSIVE Flatten(_)
Flatten(bl) == IF bl = <<>> THEN <<>> ELSE Head(bl) \o Flatten(Tail(bl))

\* The fully decoded stream.
Stream == Flatten(blocks)

\* Size of a block on disk: 12 header bytes, a 6-byte BC extra field, the
\* payload and the 8-byte trailer.  The empty block is the 28-byte
\* terminator; a stored payload of n bytes is modelled as n + 2 bytes.
HeaderLen  == 12
ExtraLen   == 6
TrailerLen == 8
DiskSize(payload) == HeaderLen + ExtraLen + (Len(payload) + 2) + TrailerLen

RECURSIVE CStart(_)
\* compressed offset of block i (1-based); CStart(Len(blocks)+1) is the file size
CStart(i) == IF i = 1 THEN 0 ELSE CStart(i - 1) + DiskSize(blocks[i - 1])

RECURSIVE UStart(_)
\* uncompressed offset of block i
UStart(i) == IF i = 1 THEN 0 ELSE UStart(i - 1) + Len(blocks[i - 1])

CompressedSize == CStart(Len(blocks) + 1)

\* The .gzi bgzip writes: one pair per block, the first block's (0,0) left
\* out.  withFirst gives the index as the crate's own unit tests build it,
\* with the (0,0) pair stored.
GziOf(bl, withFirst) ==
    LET cs[i \in 1..Len(bl)] == IF i = 1 THEN 0 ELSE cs[i - 1] + DiskSize(bl[i - 1])
        us[i \in 1..Len(bl)] == IF i = 1 THEN 0 ELSE us[i - 1] + Len(bl[i - 1])
        all == [i \in 1..Len(bl) |-> <<cs[i], us[i]>>]
    IN  IF withFirst THEN all ELSE Tail(all)

(***************************************************************************)
(* gzi.rs: GziIndex::get_compressed_offset                                 *)
(***************************************************************************)
\* slice::binary_search_by over a slice sorted by the uncompressed offset:
\* Ok(i) for an i whose element compares Equal (any one of them when there
\* are several), else Err(i) with i the insertion point.
binary_search_by(entries, target) ==
    LET hits == {i \in 0..(Len(entries) - 1) : entries[i + 1][2] = target}
        less == {i \in 0..(Len(entries) - 1) : entries[i + 1][2] < target}
    IN  IF hits # {} THEN {[tag |-> "Ok", i |-> i] : i \in hits}
        ELSE {[tag |-> "Err", i |-> Cardinality(less)]}

\* OffsetArm with the "between entries" arm off by one: the entry after
\* the insertion point instead of the one before it.
OffsetArm_NextEntry(entries, r) ==
    IF r.tag = "Ok" THEN Some(entries[r.i + 1][1])
    ELSE IF r.i = 0 THEN Some(entries[1][1])
    ELSE IF r.i >= Len(entries) THEN Some(entries[Len(entries)][1])
    ELSE Some(entries[r.i + 1][1])

\* The match of gzi.rs:173-179 on one search result.
OffsetArm(entries, r) ==
    IF r.tag = "Ok" THEN Some(entries[r.i + 1][1])
    ELSE IF r.i = 0 THEN Some(entries[1][1])
    ELSE IF r.i >= Len(entries) THEN Some(entries[Len(entries)][1])
    ELSE Some(entries[r.i][1])

\* The set of values get_compressed_offset may return.
get_compressed_offset(entries, uncompressed_offset) ==
    IF entries = <<>> THEN {NoneOpt}
    ELSE {OffsetArm(entries, r) : r \in binary_search_by(entries, uncompressed_offset)}

(***************************************************************************)
(* bgzf.rs: BgzfReader                                                     *)
(***************************************************************************)
\* BgzfReader::with_index
NewReader ==
    [inner |-> 0, buf |-> <<>>, buf_pos |-> 0, cur |-> 0, eof |-> FALSE]

\* `buf_pos >= len` on usize, a wrapped buf_pos being huge.
UGe(a, n) == a < 0 \/ a >= n

\* bgzf.rs:11-18
GZIP_ID1            == 31
GZIP_ID2            == 139
GZIP_CM_DEFLATE     == 8
GZIP_FLG_FEXTRA     == 4
BGZF_EXTRA_ID       == 66
BGZF_EXTRA_SUBFIELD == 67

\* u16::from_le_bytes([lo, hi])
u16_from_le_bytes(lo, hi) == lo + 256 * hi

\* flg & GZIP_FLG_FEXTRA != 0
HasFextra(flg) == (flg \div GZIP_FLG_FEXTRA) % 2 = 1

RECURSIVE ExtraLoop(_, _)
\* the subfield scan of bgzf.rs:230-260: [res, v], res "some" with the
\* BSIZE found, "none", or "panic" when extra[..] is indexed out of bounds
ExtraLoop(extra, remaining_xlen) ==
    LET xlen == Len(extra)
        at   == xlen - remaining_xlen
    IN  IF remaining_xlen < 4 THEN [res |-> "none", v |-> 0]
        ELSE LET si1    == extra[at + 1]
                 si2    == extra[at + 2]
                 sublen == u16_from_le_bytes(extra[at + 3], extra[at + 4])
             IN  IF si1 = BGZF_EXTRA_ID /\ si2 = BGZF_EXTRA_SUBFIELD /\ sublen >= 2
                 THEN IF at + 5 >= xlen THEN [res |-> "panic", v |-> 0]
                      ELSE [res |-> "some",
                            v |-> u16_from_le_bytes(extra[at + 5], extra[at + 6])]
                 ELSE IF sublen > remaining_xlen - 4 THEN [res |-> "none", v |-> 0]
                 ELSE ExtraLoop(extra, remaining_xlen - (4 + sublen))

\* flate2's Decompress::decompress_vec on a raw deflate stream.  The files
\* of the model hold two kinds of stream: 03 00, the empty block bgzip
\* writes, and a stored block, kept as 01 LEN and LEN literal bytes.
inflate(data) ==
    IF data = <<3, 0>> THEN [res |-> "ok", out |-> <<>>]
    ELSE IF Len(data) >= 2 /\ data[1] = 1 /\ Len(data) = 2 + data[2]
    THEN [res |-> "ok", out |-> SubSeq(data, 3, Len(data))]
    ELSE [res |-> "err", out |-> <<>>]

\* inner.read_exact(buf) with buf.len() = n at offset pos of a file that
\* holds `input`: what is left is consumed when it is too short
InnerReadExact(pos, n) ==
    IF pos + n > Len(input) THEN [res |-> "err", pos |-> Len(input), data |-> <<>>]
    ELSE [res |-> "ok", pos |-> pos + n, data |-> SubSeq(input, pos + 1, pos + n)]

\* bgzf.rs:300-319: d the outcome of decompress_vec, r3 the reader after
\* the trailer was read
BlockDecoded(r3, d) ==
    IF d.res = "err" THEN [res |-> "err", r |-> [r3 EXCEPT !.buf = <<>>]]
    ELSE [res |-> "ok",
          r |-> [r3 EXCEPT !.buf = d.out, !.buf_pos = 0, !.cur = @ + Len(d.out)]]

\* bgzf.rs:290-298: compressed_data and trailer the outcomes of the two
\* read_exact calls
BlockData(r2, compressed_data, trailer) ==
    IF compressed_data.res = "err"
    THEN [res |-> "err", r |-> [r2 EXCEPT !.inner = compressed_data.pos]]
    ELSE IF trailer.res = "err" THEN [res |-> "err", r |-> [r2 EXCEPT !.inner = trailer.pos]]
    ELSE BlockDecoded([r2 EXCEPT !.inner = trailer.pos], inflate(compressed_data.data))

\* bgzf.rs:262-291: block_size the outcome of the subfield scan
BlockSized(r2, compressed_size, block_size) ==
    IF block_size.res = "panic" THEN [res |-> "panic", r |-> r2]
    ELSE IF block_size.res = "none" THEN [res |-> "err", r |-> r2]
    ELSE IF compressed_size <= 0 THEN [res |-> "err", r |-> r2]
    ELSE BlockData(r2, InnerReadExact(r2.inner, compressed_size),
                   InnerReadExact(r2.inner + compressed_size, 8))

\* bgzf.rs:225-260: extra the outcome of read_exact for the extra field
BlockExtra(r1, xlen, extra, block_size) ==
    IF extra.res = "err" THEN [res |-> "err", r |-> [r1 EXCEPT !.inner = extra.pos]]
    ELSE BlockSized([r1 EXCEPT !.inner = extra.pos],
                    (block_size.v + 1) - 12 - xlen - 8, block_size)

\* bgzf.rs:196-223: the checks on the 12 header bytes
BlockHeader(r1, header, xlen) ==
    IF header[1] # GZIP_ID1 \/ header[2] # GZIP_ID2 THEN [res |-> "err", r |-> r1]
    ELSE IF header[3] # GZIP_CM_DEFLATE THEN [res |-> "err", r |-> r1]
    ELSE IF ~HasFextra(header[4]) THEN [res |-> "err", r |-> r1]
    ELSE BlockExtra(r1, xlen, InnerReadExact(r1.inner, xlen),
                    ExtraLoop(InnerReadExact(r1.inner, xlen).data, xlen))

\* bgzf.rs:176-194: total_read the number of header bytes the source had
BlockStart(r, total_read) ==
    IF total_read = 0 THEN [res |-> "eof", r |-> [r EXCEPT !.eof = TRUE]]
    ELSE IF total_read < 12 THEN [res |-> "err", r |-> [r EXCEPT !.inner = @ + total_read]]
    ELSE BlockHeader([r EXCEPT !.inner = @ + total_read],
                     SubSeq(input, r.inner + 1, r.inner + 12),
                     u16_from_le_bytes(input[r.inner + 11], input[r.inner + 12]))

\* read_next_block (bgzf.rs:171-321) on the bytes of `input`: "eof", "ok",
\* "err" for an io::Error, "panic"
read_next_block_bytes(r) ==
    BlockStart(r, Min(12, Len(input) - Min(r.inner, Len(input))))

\* read_next_block.  The file is `blocks` as bgzip writes them, and then
\* the call answers "eof" when the source has no byte left, "ok" with the
\* block decoded, "err" when the source is not at the start of a block; or
\* the file is the bytes of `input`.
read_next_block(r) ==
    IF input # <<>> THEN read_next_block_bytes(r)
    ELSE IF r.inner >= CompressedSize
    THEN [res |-> "eof", r |-> [r EXCEPT !.eof = TRUE]]
    ELSE IF \E i \in 1..Len(blocks) : CStart(i) = r.inner
    THEN LET i == CHOOSE j \in 1..Len(blocks) : CStart(j) = r.inner
         IN  [res |-> "ok",
              r |-> [r EXCEPT !.inner = CStart(i + 1),
                              !.buf = blocks[i],
                              !.buf_pos = 0,
                              !.cur = @ + Len(blocks[i])]]
    ELSE [res |-> "err", r |-> r]

RECURSIVE SeekLoop(_, _)
\* bgzf.rs:134-143
SeekLoop(r, pos) ==
    IF r.cur < pos
    THEN LET x == read_next_block(r)
         IN  IF x.res = "ok" THEN SeekLoop(x.r, pos)
             ELSE [res |-> "err", r |-> x.r]
    ELSE [res |-> "ok", r |-> r]

\* uncompressed_pos - (current_uncompressed_pos - decompressed_buf.len())
OffsetInBlock(r, pos) == pos - (r.cur - Len(r.buf))

\* seek_uncompressed, given the Option the index query returned.
seek_uncompressed(r, pos, co) ==
    IF ~co.some THEN [res |-> "err", r |-> r]
    ELSE LET r1 == [r EXCEPT !.inner = co.v, !.buf = <<>>, !.buf_pos = 0]
             x  == SeekLoop(r1, pos)
         IN  IF x.res # "ok" THEN x
             ELSE IF OffsetInBlock(x.r, pos) < 0 /\ build = "debug"
             THEN [res |-> "panic", r |-> x.r]
             ELSE [res |-> "ok", r |-> [x.r EXCEPT !.buf_pos = OffsetInBlock(x.r, pos)]]

current_position(r) ==
    IF r.buf = <<>> THEN r.cur ELSE r.cur - Len(r.buf) + r.buf_pos

\* bgzf.rs:328-335: x the outcome of read_next_block
Refilled(x) ==
    IF x.res \in {"err", "panic"} THEN [res |-> x.res, avail |-> <<>>, r |-> x.r]
    ELSE IF x.res = "eof" THEN [res |-> "ok", avail |-> <<>>, r |-> x.r]
    ELSE [res |-> "ok", avail |-> x.r.buf, r |-> x.r]

\* fill_buf: the bytes available, after reading the next block if the
\* buffer is drained.
fill_buf(r) ==
    IF UGe(r.buf_pos, Len(r.buf))
    THEN IF r.eof THEN [res |-> "ok", avail |-> <<>>, r |-> r]
         ELSE Refilled(read_next_block(r))
    ELSE [res |-> "ok", avail |-> SubSeq(r.buf, r.buf_pos + 1, Len(r.buf)), r |-> r]

RECURSIVE ReadLoop(_, _, _)
\* bgzf.rs:348-356: f the outcome of fill_buf, to_read the bytes to copy
Copied(f, n, got, to_read) ==
    IF f.res # "ok" THEN [res |-> f.res, data |-> <<>>, r |-> f.r]
    ELSE IF f.avail = <<>> THEN [res |-> "ok", data |-> got, r |-> f.r]
    ELSE ReadLoop([f.r EXCEPT !.buf_pos = @ + to_read], n,
                  got \o SubSeq(f.avail, 1, to_read))

\* impl Read for BgzfReader: the loop of bgzf.rs:346-357, `got` the bytes copied so far
ReadLoop(r, n, got) ==
    IF Len(got) < n
    THEN Copied(fill_buf(r), n, got, Min(Len(fill_buf(r).avail), n - Len(got)))
    ELSE [res |-> "ok", data |-> got, r |-> r]

read(r, n) == ReadLoop(r, n, <<>>)

\* Read::read_exact (the std default): read until the buffer is full, an
\* error when a read returns 0 first.
RECURSIVE ReadExactLoop(_, _, _)
ReadExactLoop(r, n, got) ==
    IF Len(got) < n
    THEN LET x == read(r, n - Len(got))
         IN  IF x.res = "err" THEN x
             ELSE IF x.data = <<>> THEN [res |-> "err", data |-> <<>>, r |-> x.r]
             ELSE ReadExactLoop(x.r, n, got \o x.data)
    ELSE [res |-> "ok", data |-> got, r |-> r]

read_exact(r, n) == ReadExactLoop(r, n, <<>>)

(***************************************************************************)
(* fai.rs: FaiEntry                                                        *)
(***************************************************************************)
\* FaiIndex::get
FaiGet(name) ==
    IF \E e \in fai : e.name = name
    THEN Some(CHOOSE e \in fai : e.name = name)
    ELSE NoneOpt

\* FaiEntry::offset_for_position (line_bases > 0)
offset_for_position(entry, start) ==
    LET full_lines == start \div entry.line_bases
        col        == start % entry.line_bases
    IN  entry.offset + (full_lines * entry.line_width) + col

(***************************************************************************)
(* lib.rs: FastARecord::seq                                                *)
(***************************************************************************)
NUL == "\\0"

RECURSIVE SeqScan(_, _, _, _)
\* The memchr_iter fold of lib.rs:407-412: i scans raw_seq for LF, out is
\* seq[0..seq_end].  Returns <<line_start, out>>.
SeqScan(raw, i, line_start, out) ==
    IF i >= Len(raw) THEN <<line_start, out>>
    ELSE IF raw[i + 1] = LF
    THEN SeqScan(raw, i + 1, i + 1, out \o SubSeq(raw, line_start + 1, i))
    ELSE SeqScan(raw, i + 1, line_start, out)

\* FastARecord::seq: the vector starts as raw_seq.len() zero bytes and is
\* cut to the bytes copied only when a last line without LF follows.
seq(raw) ==
    LET sc         == SeqScan(raw, 0, 0, <<>>)
        line_start == sc[1]
        out        == sc[2]
    IN  IF line_start < Len(raw)
        THEN out \o SubSeq(raw, line_start + 1, Len(raw))
        ELSE out \o [k \in 1..(Len(raw) - Len(out)) |-> NUL]

(***************************************************************************)
(* indexed.rs: IndexedFastXReader                                          *)
(***************************************************************************)
FetchBufLen == 8192

RECURSIVE RangeLoop(_, _, _, _, _)
\* The loop of indexed.rs:303-336.
RangeLoop(r, entry, remaining, col, seq_data) ==
    IF remaining > 0
    THEN LET in_line == Min(remaining, entry.line_bases - col)
             x       == read(r, in_line)
             n       == Len(x.data)
             rem1    == remaining - n
         IN  IF x.res = "err" THEN [res |-> "err", data |-> <<>>, r |-> x.r]
             ELSE IF n = 0 THEN [res |-> "err", data |-> <<>>, r |-> x.r]
             ELSE IF col + n >= entry.line_bases /\ rem1 > 0
             THEN LET y == read_exact(x.r, 1)
                  IN  IF y.res = "err" THEN [res |-> "err", data |-> <<>>, r |-> y.r]
                      ELSE IF y.data[1] # LF THEN [res |-> "err", data |-> <<>>, r |-> y.r]
                      ELSE RangeLoop(y.r, entry, rem1, 0, seq_data \o x.data)
             ELSE RangeLoop(x.r, entry, rem1, 0, seq_data \o x.data)
    ELSE [res |-> "ok", data |-> seq_data, r |-> r]

\* fetch_range after the index lookup and the start check, given the Option
\* the GZI query returned for start_offset.
fetch_range_at(r, entry, start, end, co) ==
    LET clamped_end   == Min(end, entry.length)
        region_length == clamped_end - start
        sk            == seek_uncompressed(r, offset_for_position(entry, start), co)
    IN  IF region_length < 0 /\ build = "debug"
        THEN [res |-> "panic", data |-> <<>>, r |-> r]
        ELSE IF sk.res # "ok" THEN [res |-> sk.res, data |-> <<>>, r |-> sk.r]
        ELSE IF region_length < 0
        THEN [res |-> "panic", data |-> <<>>, r |-> sk.r]  \* Vec::with_capacity(2^64 + region_length)
        ELSE RangeLoop(sk.r, entry, region_length, start % entry.line_bases, <<>>)

\* The set of results fetch_range(seq_id, start, end) may return.
fetch_range(r, seq_id, start, end) ==
    LET e == FaiGet(seq_id)
    IN  IF ~e.some THEN {[res |-> "err", data |-> <<>>, r |-> r]}
        ELSE IF start >= e.v.length THEN {[res |-> "err", data |-> <<>>, r |-> r]}
        ELSE IF e.v.line_bases = 0 THEN {[res |-> "panic", data |-> <<>>, r |-> r]}
        ELSE {fetch_range_at(r, e.v, start, end, co) :
                 co \in get_compressed_offset(gzi, offset_for_position(e.v, start))}

RECURSIVE HeaderLoop(_, _)
\* The loop of indexed.rs:350-358.
HeaderLoop(r, header) ==
    LET x == read(r, 1)
    IN  IF x.res = "err" THEN [res |-> "err", header |-> header, r |-> x.r]
        ELSE IF x.data = <<>> \/ x.data[1] = LF
        THEN [res |-> "ok", header |-> header, r |-> x.r]
        ELSE HeaderLoop(x.r, header \o x.data)

RECURSIVE FilterBuf(_, _, _, _)
\* The for loop of indexed.rs:374-390 over buf[..n].  Returns <<raw_seq, total_bases>>.
FilterBuf(bytes, raw_seq, total_bases, length) ==
    IF bytes = <<>> THEN <<raw_seq, total_bases>>
    ELSE IF Head(bytes) # LF
    THEN IF total_bases + 1 >= length
         THEN <<Append(raw_seq, Head(bytes)), total_bases + 1>>
         ELSE FilterBuf(Tail(bytes), Append(raw_seq, Head(bytes)), total_bases + 1, length)
    ELSE FilterBuf(Tail(bytes), Append(raw_seq, LF), total_bases, length)

RECURSIVE SeqLoop(_, _, _, _)
\* The loop of indexed.rs:365-391.
SeqLoop(r, raw_seq, total_bases, length) ==
    IF total_bases < length
    THEN LET x == read(r, FetchBufLen)
         IN  IF x.res = "err" THEN [res |-> "err", raw_seq |-> raw_seq, r |-> x.r]
             ELSE IF x.data = <<>> THEN [res |-> "ok", raw_seq |-> raw_seq, r |-> x.r]
             ELSE LET f == FilterBuf(x.data, raw_seq, total_bases, length)
                  IN  SeqLoop(x.r, f[1], f[2], length)
    ELSE [res |-> "ok", raw_seq |-> raw_seq, r |-> r]

NoRecord == [name |-> <<>>, raw_seq |-> <<>>]

\* fetch_entry, given the Option the GZI query returned for entry.offset.
fetch_entry(r, entry, co) ==
    LET sk == seek_uncompressed(r, entry.offset, co)
    IN  IF sk.res # "ok" THEN [res |-> sk.res, rec |-> NoRecord, r |-> sk.r]
        ELSE LET h == HeaderLoop(sk.r, <<>>)
             IN  IF h.res = "err" THEN [res |-> "err", rec |-> NoRecord, r |-> h.r]
                 ELSE LET s == SeqLoop(h.r, <<>>, 0, entry.length)
                      IN  IF s.res = "err" THEN [res |-> "err", rec |-> NoRecord, r |-> s.r]
                          ELSE [res |-> "ok",
                                rec |-> [name |-> h.header, raw_seq |-> s.raw_seq],
                                r |-> s.r]

\* The set of results fetch(seq_id) may return.
fetch(r, seq_id) ==
    LET e == FaiGet(seq_id)
    IN  IF ~e.some THEN {[res |-> "err", rec |-> NoRecord, r |-> r]}
        ELSE {fetch_entry(r, e.v, co) : co \in get_compressed_offset(gzi, e.v.offset)}

(***************************************************************************)
(* Operations on the readers.                                              *)
(***************************************************************************)
NoLast == [op |-> "none", res |-> "ok"]

\* no text is being parsed
NoParser ==
    /\ records = <<>>
    /\ stream = [pos |-> 0, filled |-> 0, cap |-> 0, done |-> FALSE]
    /\ record = NoRecord

\* no remote resource is being read
NoRemote ==
    /\ remote = [pos |-> 0, file_size |-> 0, block_size |-> 0, cache |-> <<>>]
    /\ net = [heads |-> 0, gets |-> <<>>, served |-> {}]
    /\ pc = <<>>

LayoutInit ==
    /\ build \in {"debug", "release"}
    /\ \E lb \in 2..MaxLineBases, bs \in {MaxBlock - 1, MaxBlock, BGZF_MAX_BLOCK_SIZE},
          eofBlock \in BOOLEAN, withFirst \in BOOLEAN :
          /\ blocks = BgzipOf(FastaText(lb), bs, eofBlock)
          /\ gzi = GziOf(BgzipOf(FastaText(lb), bs, eofBlock), withFirst)
          /\ fai = FaidxOf(lb)
    /\ reader = NewReader
    /\ last = NoLast
    /\ nops = 0
    /\ input = <<>>
    /\ loaded = NoneOpt
    /\ NoRemote
    /\ NoParser

Alive == last.res # "panic" /\ nops < MaxOps

\* gzi.get_compressed_offset(u)
Query(u) ==
    /\ Alive
    /\ \E co \in get_compressed_offset(gzi, u) :
         last' = [op |-> "query", arg |-> u, res |-> "ok", co |-> co]
    /\ nops' = nops + 1
    /\ UNCHANGED <<build, blocks, gzi, fai, reader, input, loaded, pvars, rvars>>

\* reader.seek_uncompressed(u)
Seek(u) ==
    /\ Alive
    /\ \E co \in get_compressed_offset(gzi, u) :
         LET x == seek_uncompressed(reader, u, co)
         IN  /\ reader' = x.r
             /\ last' = [op |-> "seek", arg |-> u, res |-> x.res,
                         pos |-> current_position(x.r),
                         first |-> (nops = 0),
                         back |-> (u < current_position(reader))]
    /\ nops' = nops + 1
    /\ UNCHANGED <<build, blocks, gzi, fai, input, loaded, pvars, rvars>>

\* reader.read(&mut buf) with buf.len() = k
Read(k) ==
    /\ Alive
    /\ LET x == read(reader, k)
       IN  /\ reader' = x.r
           /\ last' = [op |-> "read", arg |-> k, res |-> x.res, data |-> x.data,
                       pos |-> current_position(x.r),
                       after_seek |-> IF last.op = "seek" /\ last.res = "ok"
                                      THEN last.arg ELSE -1,
                       seek_first |-> (last.op = "seek" /\ last.first)]
    /\ nops' = nops + 1
    /\ UNCHANGED <<build, blocks, gzi, fai, input, loaded, pvars, rvars>>

\* indexed.fetch(name)
Fetch(name) ==
    /\ Alive
    /\ \E x \in fetch(reader, name) :
         /\ reader' = x.r
         /\ last' = [op |-> "fetch", name |-> name, res |-> x.res, rec |-> x.rec,
                     first |-> (nops = 0)]
    /\ nops' = nops + 1
    /\ UNCHANGED <<build, blocks, gzi, fai, input, loaded, pvars, rvars>>

\* indexed.fetch_range(name, a, b)
FetchRange(name, a, b) ==
    /\ Alive
    /\ \E x \in fetch_range(reader, name, a, b) :
         /\ reader' = x.r
         /\ last' = [op |-> "fetch_range", name |-> name, a |-> a, b |-> b,
                     res |-> x.res, data |-> x.data, first |-> (nops = 0)]
    /\ nops' = nops + 1
    /\ UNCHANGED <<build, blocks, gzi, fai, input, loaded, pvars, rvars>>

Names == {"s", "t", "u"}

BgzfNext ==
    \/ \E u \in 0..Len(Stream) : Query(u)
    \/ \E u \in 0..Len(Stream) : Seek(u)
    \/ \E k \in 1..MaxRead : Read(k)

SpecBgzf == LayoutInit /\ [][BgzfNext]_vars

IndexedNext ==
    \/ \E k \in 1..MaxRead : Read(k)
    \/ \E name \in Names : Fetch(name)
    \/ \E name \in Names, a \in 0..SeqLenS, b \in 0..(SeqLenS + 1) : FetchRange(name, a, b)

SpecIndexed == LayoutInit /\ [][IndexedNext]_vars

(***************************************************************************)
(* Claims about the BGZF decoder and the GZI query, under SpecBgzf.        *)
(***************************************************************************)
\* The index is the one bgzip writes: no (0,0) pair for the first block.
OnDiskIndex == gzi = GziOf(blocks, FALSE)

\* stream[u..u+k], cut at the end of the stream
StreamSlice(u, k) == SubSeq(Stream, u + 1, Min(u + k, Len(Stream)))

\* C1: with the on-disk GZI index, for every u smaller than the uncompressed
\* size, seek_uncompressed(u) succeeds and the read of k bytes that follows
\* it returns exactly stream[u..u+k], whether the seek is the reader's first
\* operation or not.
C1_SeekThenReadIsStreamSlice ==
    OnDiskIndex =>
        /\ (last.op = "seek" /\ last.arg < Len(Stream)) => last.res = "ok"
        /\ (last.op = "read" /\ last.after_seek >= 0 /\ last.after_seek < Len(Stream)) =>
               (last.res = "ok" /\ last.data = StreamSlice(last.after_seek, last.arg))

\* C2: after every successful seek_uncompressed(t), current_position() = t,
\* whatever reads and seeks came before.
C2_PositionAfterSeekIsTarget ==
    (last.op = "seek" /\ last.res = "ok") => last.pos = last.arg

\* C7: for every position u inside the file, the GZI query returns the
\* compressed start of the block that contains u, the first block included
\* although the index does not store its (0,0) pair.
C7_QueryReturnsContainingBlock ==
    (OnDiskIndex /\ last.op = "query" /\ last.arg < Len(Stream)) =>
        /\ last.co.some
        /\ \E i \in 1..Len(blocks) :
              /\ CStart(i) = last.co.v
              /\ UStart(i) <= last.arg
              /\ last.arg < UStart(i) + Len(blocks[i])

(***************************************************************************)
(* The GZI query on any sorted index, under SpecGzi.                       *)
(***************************************************************************)
GziPairs == (0..MaxCoff) \X (0..MaxUoff)

\* The invariant GziIndex holds once loaded: non-decreasing uncompressed offsets.
SortedIndexes ==
    UNION { {e \in [1..n -> GziPairs] : \A i \in 1..(n - 1) : e[i][2] <= e[i + 1][2]}
            : n \in 0..MaxEntries }

GziInit ==
    /\ build \in {"debug", "release"}
    /\ blocks = <<>>
    /\ gzi \in SortedIndexes
    /\ fai = {}
    /\ reader = NewReader
    /\ last = NoLast
    /\ nops = 0
    /\ input = <<>>
    /\ loaded = NoneOpt
    /\ NoRemote
    /\ NoParser

GziNext == \E u \in 0..(MaxUoff + 1) : Query(u)

SpecGzi == GziInit /\ [][GziNext]_vars

RECURSIVE TakeBases(_, _)
\* the first n bytes of s that are not LF
TakeBases(s, n) ==
    IF n = 0 \/ s = <<>> THEN <<>>
    ELSE IF Head(s) = LF THEN TakeBases(Tail(s), n)
    ELSE <<Head(s)>> \o TakeBases(Tail(s), n - 1)

\* The entry.length bases of the sequence whose first base is stored at
\* uncompressed offset entry.offset.
BasesOf(entry) == TakeBases(SubSeq(Stream, entry.offset + 1, Len(Stream)), entry.length)

NonLF(s) == SelectSeq(s, LAMBDA c : c # LF)

\* C3: on any reader state, for every FAI entry and 0 <= a <= b <= length,
\* fetch_range(name, a, b) returns the bytes fetch(name).seq()[a..b].
C3_RangeEqualsFetchSlice ==
    last.res # "panic" =>
        \A e \in fai : \A a \in 0..e.length : \A b \in a..e.length :
            \A x \in fetch_range(reader, e.name, a, b) : \A y \in fetch(reader, e.name) :
                /\ x.res = "ok"
                /\ y.res = "ok"
                /\ x.data = SubSeq(seq(y.rec.raw_seq), a + 1, b)

\* C4: fetch(name) of a name in the index returns the record whose name is
\* entry.name and whose seq() is the entry.length bases that begin at
\* uncompressed offset entry.offset.
C4_FetchReturnsEntrySequence ==
    (last.op = "fetch" /\ FaiGet(last.name).some) =>
        /\ last.res = "ok"
        /\ last.rec.name = <<last.name>>
        /\ seq(last.rec.raw_seq) = BasesOf(FaiGet(last.name).v)

\* C5: with line_width = line_bases + 1 and start < length, fetch_range
\* returns exactly the bases start .. min(end, length) of the sequence, the
\* LF of every line wrap crossed left out.
C5_FetchRangeReturnsBases ==
    (/\ last.op = "fetch_range"
     /\ FaiGet(last.name).some
     /\ last.a < FaiGet(last.name).v.length
     /\ last.a <= last.b) =>
        LET e == FaiGet(last.name).v
        IN  /\ e.line_width = e.line_bases + 1
            /\ last.res = "ok"
            /\ last.data = SubSeq(BasesOf(e), last.a + 1, Min(last.b, e.length))

\* C6: when the decoder has reached end-of-input, a fetch or fetch_range
\* that returned Ok returned all the bases asked for: entry.length for
\* fetch, min(end, length) - start for fetch_range.
C6_NoShortSuccessAtEof ==
    /\ (last.op = "fetch" /\ FaiGet(last.name).some /\ last.res = "ok" /\ reader.eof) =>
           Len(NonLF(last.rec.raw_seq)) = FaiGet(last.name).v.length
    /\ (last.op = "fetch_range" /\ FaiGet(last.name).some /\ last.res = "ok" /\ reader.eof
        /\ last.a <= last.b) =>
           Len(last.data) = Min(last.b, FaiGet(last.name).v.length) - last.a

(***************************************************************************)
(* gzi.rs: GziIndex::from_path and indexed.rs: parse_gzi_from_bytes.       *)
(* A u64 is kept as its 8 little-endian bytes; usize is 64 bits wide.      *)
(***************************************************************************)
WordLen  == 8
PairLen  == 16
ByteBase == 256

\* u64::from_le_bytes([data[off], .., data[off + 7]])
from_le_bytes(data, off) == SubSeq(data, off + 1, off + WordLen)

\* a < b on two u64
RECURSIVE U64LtFrom(_, _, _)
U64LtFrom(a, b, i) ==
    IF i = 0 THEN FALSE
    ELSE IF a[i] # b[i] THEN a[i] < b[i]
    ELSE U64LtFrom(a, b, i - 1)

U64Lt(a, b) == U64LtFrom(a, b, WordLen)

RECURSIVE MulAddFrom(_, _, _, _)
\* x * m + carry on the bytes i..8 of x: <<low 64 bits, carry out>>
MulAddFrom(x, m, carry, i) ==
    IF i > WordLen THEN <<<<>>, carry>>
    ELSE LET t    == x[i] * m + carry
             rest == MulAddFrom(x, m, t \div ByteBase, i + 1)
         IN  <<<<t % ByteBase>> \o rest[1], rest[2]>>

\* 8 + num_entries * 16 on usize: [v |-> the wrapped result, overflow |-> BOOLEAN]
ExpectedSize(num_entries) ==
    LET mul == MulAddFrom(num_entries, PairLen, 0, 1)
        add == MulAddFrom(mul[1], 1, WordLen, 1)
    IN  [v |-> add[1], overflow |-> (mul[2] # 0 \/ add[2] # 0)]

\* num_entries * 16 > isize::MAX: Vec::with_capacity panics ("capacity overflow")
CapacityOverflow(num_entries) ==
    LET mul == MulAddFrom(num_entries, PairLen, 0, 1)
    IN  mul[2] # 0 \/ mul[1][WordLen] >= 128

\* a usize x compared with a length below 2^24: len < x
LenLt(len, x) ==
    \/ \E i \in 4..WordLen : x[i] # 0
    \/ len < x[1] + ByteBase * x[2] + ByteBase * ByteBase * x[3]

\* a usize known to be at most a length below 2^24, as a number
Small(x) == x[1] + ByteBase * x[2] + ByteBase * ByteBase * x[3]

\* the loop of gzi.rs:93-120: entry i (0-based) is read at offset 8 + 16 i
ReadEntries(data, n) ==
    [i \in 1..n |-> <<from_le_bytes(data, WordLen + PairLen * (i - 1)),
                      from_le_bytes(data, WordLen + PairLen * (i - 1) + WordLen)>>]

\* the check of gzi.rs:123-132
EntriesSorted(entries) ==
    \A i \in 2..Len(entries) : ~U64Lt(entries[i][2], entries[i - 1][2])

LoadErr   == [res |-> "err", entries |-> <<>>]
LoadPanic == [res |-> "panic", entries |-> <<>>]

\* GziIndex::from_path on a file that holds `buffer`
GziFromPath(buffer) ==
    IF Len(buffer) < WordLen THEN LoadErr
    ELSE LET num_entries   == from_le_bytes(buffer, 0)
             expected_size == ExpectedSize(num_entries)
         IN  IF expected_size.overflow /\ build = "debug" THEN LoadPanic
             ELSE IF LenLt(Len(buffer), expected_size.v) THEN LoadErr
             ELSE IF CapacityOverflow(num_entries) THEN LoadPanic
             ELSE LET entries == ReadEntries(buffer, Small(num_entries))
                  IN  IF ~EntriesSorted(entries) THEN LoadErr
                      ELSE [res |-> "ok", entries |-> entries]

\* parse_gzi_from_bytes(data)
parse_gzi_from_bytes(data) ==
    IF Len(data) < WordLen THEN LoadErr
    ELSE LET num_entries   == from_le_bytes(data, 0)
             expected_size == ExpectedSize(num_entries)
         IN  IF expected_size.overflow /\ build = "debug" THEN LoadPanic
             ELSE IF LenLt(Len(data), expected_size.v) THEN LoadErr
             ELSE IF CapacityOverflow(num_entries) THEN LoadPanic
             ELSE LET entries == ReadEntries(data, Small(num_entries))
                  IN  IF ~EntriesSorted(entries) THEN LoadErr
                      ELSE [res |-> "ok", entries |-> entries]

(***************************************************************************)
(* The GZI loaders on byte strings, under SpecGziLoad.                     *)
(***************************************************************************)
\* u64::to_le_bytes of b0 + 256 b1 + 2^56 b7
Word(b0, b1, b7) == <<b0, b1, 0, 0, 0, 0, 0, b7>>

\* Counts a byte string may declare: 0..MaxCount, and counts of 2^60 and more.
CountWords ==
    {Word(n, 0, 0) : n \in 0..MaxCount} \cup {Word(0, 0, 16), Word(1, 0, 16), Word(0, 0, 255)}

\* Offsets a pair may hold: values whose order differs from the order of
\* their low bytes.
OffsetWords == {Word(0, 0, 0), Word(2, 0, 0), Word(1, 1, 0), Word(0, 0, 1)}

PairBytes == {c \o u : c \in {Word(0, 0, 0), Word(7, 0, 0)}, u \in OffsetWords}

RECURSIVE PairRuns(_)
\* the byte strings made of n pairs
PairRuns(n) ==
    IF n = 0 THEN {<<>>}
    ELSE {p \o q : p \in PairBytes, q \in PairRuns(n - 1)}

\* the lengths at which a string holding n pairs is cut: inside the count,
\* and at and one byte before the end of every pair
CutLengths(n) ==
    {0, WordLen - 1} \cup {WordLen + PairLen * k - d : k \in 0..n, d \in {0, 1}}

GziFiles ==
    UNION { {SubSeq(h \o body, 1, len) : len \in CutLengths(Len(body) \div PairLen)}
            : h \in CountWords, body \in UNION {PairRuns(n) : n \in 0..MaxPairs} }

NotLoaded == [res |-> "none", entries |-> <<>>, loader |-> "none"]

GziLoadInit ==
    /\ build \in {"debug", "release"}
    /\ blocks = <<>>
    /\ gzi = <<>>
    /\ fai = {}
    /\ reader = NewReader
    /\ last = NoLast
    /\ nops = 0
    /\ input \in GziFiles
    /\ loaded = NotLoaded
    /\ NoParser
    /\ NoRemote

\* GziIndex::from_path(path), the file at path holding `input`
LoadGziFromPath ==
    /\ loaded = NotLoaded
    /\ LET x == GziFromPath(input)
       IN  loaded' = [res |-> x.res, entries |-> x.entries, loader |-> "from_path"]
    /\ UNCHANGED <<build, blocks, gzi, fai, reader, last, nops, input, pvars, rvars>>

\* parse_gzi_from_bytes(&input)
LoadGziFromBytes ==
    /\ loaded = NotLoaded
    /\ LET x == parse_gzi_from_bytes(input)
       IN  loaded' = [res |-> x.res, entries |-> x.entries, loader |-> "parse_gzi_from_bytes"]
    /\ UNCHANGED <<build, blocks, gzi, fai, reader, last, nops, input, pvars, rvars>>

GziLoadNext == LoadGziFromPath \/ LoadGziFromBytes

SpecGziLoad == GziLoadInit /\ [][GziLoadNext]_vars

\* The count N the first 8 bytes declare, -1 standing for an N of 2^24 or
\* more (no input of the model is that long).
DeclaredCount == 
    IF \E i \in 4..WordLen : input[i] # 0 THEN -1
    ELSE input[1] + ByteBase * input[2] + ByteBase * ByteBase * input[3]

\* the i-th pair of the input (1-based), as <<compressed, uncompressed>>
InputPair(i) ==
    <<SubSeq(input, WordLen + PairLen * (i - 1) + 1, WordLen + PairLen * (i - 1) + WordLen),
      SubSeq(input, WordLen + PairLen * (i - 1) + WordLen + 1, WordLen + PairLen * i)>>

\* data length >= 8, >= 8 + 16 N, and the N pairs non-decreasing by
\* uncompressed offset
GziWellFormed ==
    /\ Len(input) >= WordLen
    /\ DeclaredCount >= 0
    /\ Len(input) >= WordLen + PairLen * DeclaredCount
    /\ \A i \in 2..DeclaredCount : ~U64Lt(InputPair(i)[2], InputPair(i - 1)[2])

\* C9: either loader succeeds exactly on the well-formed inputs, returns a
\* parse error on every other input, and on success holds exactly the N
\* pairs in file order.
C9_GziLoadSucceedsIffWellFormed ==
    loaded # NotLoaded =>
        IF GziWellFormed
        THEN /\ loaded.res = "ok"
             /\ loaded.entries = [i \in 1..DeclaredCount |-> InputPair(i)]
        ELSE loaded.res = "err"

(***************************************************************************)
(* fai.rs: FaiIndex::from_path and indexed.rs: parse_fai_from_bytes.       *)
(* A text is a sequence of one-character strings; BAD is a byte that is    *)
(* not valid UTF-8.                                                        *)
(***************************************************************************)
TAB == "\t"
CR  == "\r"
SP  == " "
BAD == "\\xFF"

\* char::is_whitespace, on the characters of the model
IsWhitespace(c) == c \in {SP, TAB, CR, LF}

DigitValue ==
    [c \in {"0", "1", "2", "3", "4", "5", "6", "7", "8", "9"} |->
        CASE c = "0" -> 0 [] c = "1" -> 1 [] c = "2" -> 2 [] c = "3" -> 3 [] c = "4" -> 4
          [] c = "5" -> 5 [] c = "6" -> 6 [] c = "7" -> 7 [] c = "8" -> 8 [] c = "9" -> 9]

RECURSIVE SplitInclusive(_, _)
\* str::split_inclusive('\n'): the pieces of text, each with its LF; cur is
\* the piece being collected
SplitInclusive(text, cur) ==
    IF text = <<>> THEN (IF cur = <<>> THEN <<>> ELSE <<cur>>)
    ELSE IF Head(text) = LF THEN <<Append(cur, LF)>> \o SplitInclusive(Tail(text), <<>>)
    ELSE SplitInclusive(Tail(text), Append(cur, Head(text)))

\* the map of str::lines (and the pops of BufRead::lines): a piece loses
\* its LF and then a CR before it
StripLineEnd(piece) ==
    IF piece # <<>> /\ piece[Len(piece)] = LF
    THEN LET l == SubSeq(piece, 1, Len(piece) - 1)
         IN  IF l # <<>> /\ l[Len(l)] = CR THEN SubSeq(l, 1, Len(l) - 1) ELSE l
    ELSE piece

\* str::lines / BufRead::lines
lines(text) ==
    LET pieces == SplitInclusive(text, <<>>)
    IN  [i \in 1..Len(pieces) |-> StripLineEnd(pieces[i])]

RECURSIVE trim_start(_)
trim_start(s) ==
    IF s # <<>> /\ IsWhitespace(Head(s)) THEN trim_start(Tail(s)) ELSE s

RECURSIVE trim_end(_)
trim_end(s) ==
    IF s # <<>> /\ IsWhitespace(s[Len(s)]) THEN trim_end(SubSeq(s, 1, Len(s) - 1)) ELSE s

\* trim that strips the line end only, leaving tabs and spaces in place.
trim_CrOnly(s) ==
    IF s # <<>> /\ s[Len(s)] = CR THEN SubSeq(s, 1, Len(s) - 1) ELSE s

\* str::trim
trim(s) == trim_end(trim_start(s))

RECURSIVE SplitTab(_, _)
\* line.split('\t').collect(): cur is the field being collected
SplitTab(s, cur) ==
    IF s = <<>> THEN <<cur>>
    ELSE IF Head(s) = TAB THEN <<cur>> \o SplitTab(Tail(s), <<>>)
    ELSE SplitTab(Tail(s), Append(cur, Head(s)))

RECURSIVE DigitsValue(_, _)
\* the digits of a number, acc the value read so far; -1 on a character
\* that is no digit
DigitsValue(s, acc) ==
    IF s = <<>> THEN acc
    ELSE IF Head(s) \in DOMAIN DigitValue
    THEN DigitsValue(Tail(s), acc * 10 + DigitValue[Head(s)])
    ELSE -1

\* str::parse::<u64>: an optional '+', then one digit or more; NoneOpt on
\* failure.  (No field of the model is long enough to exceed u64::MAX.)
parse_u64(s) ==
    LET digits == IF s # <<>> /\ Head(s) = "+" THEN Tail(s) ELSE s
    IN  IF digits = <<>> \/ DigitsValue(digits, 0) < 0 THEN NoneOpt
        ELSE Some(DigitsValue(digits, 0))

\* HashMap::insert(entry.name.clone(), entry)
MapInsert(entries, entry) ==
    {e \in entries : e.name # entry.name} \cup {entry}

\* One turn of the loop body of fai.rs:159-228 on a line already decoded:
\* [res |-> "skip" | "err" | "ok", entry]
ParseLine(raw) ==
    LET line  == trim(raw)
        parts == SplitTab(line, <<>>)
    IN  IF line = <<>> \/ Head(line) = "#" THEN [res |-> "skip", entry |-> <<>>]
        ELSE IF Len(parts) # 5 THEN [res |-> "err", entry |-> <<>>]
        ELSE LET length     == parse_u64(parts[2])
                 offset     == parse_u64(parts[3])
                 line_bases == parse_u64(parts[4])
                 line_width == parse_u64(parts[5])
             IN  IF ~length.some \/ ~offset.some \/ ~line_bases.some \/ ~line_width.some
                 THEN [res |-> "err", entry |-> <<>>]
                 ELSE IF line_width.v < line_bases.v THEN [res |-> "err", entry |-> <<>>]
                 ELSE [res |-> "ok",
                       entry |-> [name |-> parts[1], length |-> length.v,
                                  offset |-> offset.v, line_bases |-> line_bases.v,
                                  line_width |-> line_width.v]]

HasBad(s) == \E i \in 1..Len(s) : s[i] = BAD

RECURSIVE FaiPathLoop(_, _)
\* the loop of fai.rs:156-229; `line_result?` fails on a line that is not UTF-8
FaiPathLoop(ls, entries) ==
    IF ls = <<>> THEN [res |-> "ok", entries |-> entries]
    ELSE IF HasBad(Head(ls)) THEN [res |-> "err", entries |-> {}]
    ELSE LET p == ParseLine(Head(ls))
         IN  IF p.res = "err" THEN [res |-> "err", entries |-> {}]
             ELSE IF p.res = "skip" THEN FaiPathLoop(Tail(ls), entries)
             ELSE FaiPathLoop(Tail(ls), MapInsert(entries, p.entry))

\* FaiIndex::from_path on a file that holds `text`
FaiFromPath(text) == FaiPathLoop(lines(text), {})

RECURSIVE FaiBytesLoop(_, _)
\* the loop of indexed.rs:458-529
FaiBytesLoop(ls, entries) ==
    IF ls = <<>> THEN [res |-> "ok", entries |-> entries]
    ELSE LET p == ParseLine(Head(ls))
         IN  IF p.res = "err" THEN [res |-> "err", entries |-> {}]
             ELSE IF p.res = "skip" THEN FaiBytesLoop(Tail(ls), entries)
             ELSE FaiBytesLoop(Tail(ls), MapInsert(entries, p.entry))

\* parse_fai_from_bytes(data); std::str::from_utf8 fails first
parse_fai_from_bytes(data) ==
    IF HasBad(data) THEN [res |-> "err", entries |-> {}]
    ELSE FaiBytesLoop(lines(data), {})

(***************************************************************************)
(* The .fai texts the loaders are run on: up to MaxLines lines, one of     *)
(* them drawn from FeatureLines, the others from BaseLines.                *)
(***************************************************************************)
RECURSIVE JoinFields(_)
JoinFields(fs) ==
    IF Len(fs) = 1 THEN fs[1] ELSE fs[1] \o <<TAB>> \o JoinFields(Tail(fs))

\* rows of five fields: name, length, offset, line_bases, line_width
FiveFields ==
    {<< <<"a">>, <<"4">>, o, b, w >> : o \in {<<"0">>, <<"x">>},
                                      b \in {<<"0">>, <<"2">>, <<"+", "2">>},
                                      w \in {<<"1">>, <<"3">>}}

\* rows of five fields, and rows of four and of six fields made from the
\* rows whose offset is a number
FieldRows ==
    FiveFields \cup {SubSeq(r, 1, 4) : r \in {q \in FiveFields : q[3] = <<"0">>}}
               \cup {Append(r, <<"9">>) : r \in {q \in FiveFields : q[3] = <<"0">>}}

\* what stands before and after the fields on the line
Wrappers == {<< <<>>, <<>> >>, << <<TAB>>, <<>> >>, << <<>>, <<TAB>> >>, << <<SP>>, <<SP>> >>}

OtherLines ==
    {<<>>, <<SP>>, <<TAB>>, <<"#">>, <<"#", "a">>, <<SP, "#">>, <<"#", BAD>>,
     <<BAD, TAB, "4", TAB, "0", TAB, "2", TAB, "3">>,
     <<"a", TAB, "4", TAB, TAB, "2", TAB, "3">>}

FeatureLines ==
    {w[1] \o JoinFields(r) \o w[2] : r \in FieldRows, w \in Wrappers} \cup OtherLines

BaseLines ==
    {<<"a", TAB, "5", TAB, "0", TAB, "2", TAB, "3">>,
     <<"b", TAB, "6", TAB, "9", TAB, "3", TAB, "4">>}

LineSeqs ==
    UNION { {[i \in 1..n |-> IF i = k THEN f ELSE bs[i]] :
                k \in 1..n, f \in FeatureLines, bs \in [1..n -> BaseLines]}
            : n \in 1..MaxLines }

RECURSIVE JoinLines(_, _, _)
\* the lines with `term` after each, after the last one only if `final`
JoinLines(ls, term, final) ==
    IF ls = <<>> THEN <<>>
    ELSE IF Len(ls) = 1 THEN Head(ls) \o (IF final THEN term ELSE <<>>)
    ELSE Head(ls) \o term \o JoinLines(Tail(ls), term, final)

\* LF after every line, LF after every line but the last, CR LF after every line
FaiTexts ==
    {JoinLines(ls, e[1], e[2]) :
        ls \in LineSeqs, e \in {<< <<LF>>, TRUE >>, << <<LF>>, FALSE >>, << <<CR, LF>>, TRUE >>}}

FaiNotLoaded == [res |-> "none", entries |-> {}, loader |-> "none"]

FaiLoadInit ==
    /\ build \in {"debug", "release"}
    /\ blocks = <<>>
    /\ gzi = <<>>
    /\ fai = {}
    /\ reader = NewReader
    /\ last = NoLast
    /\ nops = 0
    /\ input \in FaiTexts
    /\ loaded = FaiNotLoaded
    /\ NoParser
    /\ NoRemote

\* FaiIndex::from_path(path), the file at path holding `input`
LoadFaiFromPath ==
    /\ loaded = FaiNotLoaded
    /\ LET x == FaiFromPath(input)
       IN  loaded' = [res |-> x.res, entries |-> x.entries, loader |-> "from_path"]
    /\ UNCHANGED <<build, blocks, gzi, fai, reader, last, nops, input, pvars, rvars>>

\* parse_fai_from_bytes(&input)
LoadFaiFromBytes ==
    /\ loaded = FaiNotLoaded
    /\ LET x == parse_fai_from_bytes(input)
       IN  loaded' = [res |-> x.res, entries |-> x.entries, loader |-> "parse_fai_from_bytes"]
    /\ UNCHANGED <<build, blocks, gzi, fai, reader, last, nops, input, pvars, rvars>>

\* entry.offset_for_position(k) on an entry of the loaded index; the
\* division and the remainder by line_bases panic when line_bases is 0
Locate(entry, k) ==
    /\ loaded.res = "ok"
    /\ last = NoLast
    /\ entry \in loaded.entries
    /\ last' = [op |-> "offset_for_position", entry |-> entry, arg |-> k,
                res |-> IF entry.line_bases = 0 THEN "panic" ELSE "ok",
                v |-> IF entry.line_bases = 0 THEN 0 ELSE offset_for_position(entry, k)]
    /\ UNCHANGED <<build, blocks, gzi, fai, reader, nops, input, loaded, pvars, rvars>>

FaiLoadNext ==
    \/ LoadFaiFromPath
    \/ LoadFaiFromBytes
    \/ \E entry \in loaded.entries : \E k \in 0..(entry.length - 1) : Locate(entry, k)

SpecFai == FaiLoadInit /\ [][FaiLoadNext]_vars

(***************************************************************************)
(* What a .fai text says, read off the text itself.                        *)
(***************************************************************************)
\* the fields of s: the stretches between its tabs
TabFields(s) ==
    LET tabs   == {i \in 1..Len(s) : s[i] = TAB}
        cut(k) == IF k = 0 THEN 0
                  ELSE IF k = Cardinality(tabs) + 1 THEN Len(s) + 1
                  ELSE CHOOSE p \in tabs : Cardinality({q \in tabs : q < p}) = k - 1
    IN  [k \in 1..(Cardinality(tabs) + 1) |-> SubSeq(s, cut(k - 1) + 1, cut(k) - 1)]

\* s without the whitespace before its first and after its last
\* non-whitespace character
LineCore(s) ==
    LET solid == {i \in 1..Len(s) : ~IsWhitespace(s[i])}
    IN  IF solid = {} THEN <<>>
        ELSE SubSeq(s, CHOOSE i \in solid : \A j \in solid : i <= j,
                       CHOOSE i \in solid : \A j \in solid : i >= j)

RECURSIVE Pow10(_)
Pow10(n) == IF n = 0 THEN 1 ELSE 10 * Pow10(n - 1)

RECURSIVE SumTo(_, _)
SumTo(f, n) == IF n = 0 THEN 0 ELSE f[n] + SumTo(f, n - 1)

\* decimal digits, one at least
IsDecimal(f) == f # <<>> /\ \A i \in 1..Len(f) : f[i] \in DOMAIN DigitValue

DecimalValue(f) ==
    SumTo([i \in 1..Len(f) |-> DigitValue[f[i]] * Pow10(Len(f) - i)], Len(f))

\* an unsigned number with an optional '+' before its digits
SignedDigits(f) == IF f # <<>> /\ Head(f) = "+" THEN Tail(f) ELSE f

\* the entry five fields spell
EntryOf(fs) ==
    [name |-> fs[1], length |-> DecimalValue(SignedDigits(fs[2])),
     offset |-> DecimalValue(SignedDigits(fs[3])),
     line_bases |-> DecimalValue(SignedDigits(fs[4])),
     line_width |-> DecimalValue(SignedDigits(fs[5]))]

\* five fields, the last four numbers, line_width >= line_bases
FiveGoodFields(fs) ==
    /\ Len(fs) = 5
    /\ \A k \in 2..5 : IsDecimal(SignedDigits(fs[k]))
    /\ EntryOf(fs).line_width >= EntryOf(fs).line_bases

InputLines == lines(input)

\* the lines that are neither blank (empty or whitespace only) nor '#'
\* lines, as they stand
RawDataLines ==
    {i \in 1..Len(InputLines) :
        LineCore(InputLines[i]) # <<>> /\ Head(InputLines[i]) # "#"}

\* C10: either loader succeeds exactly when every non-empty, non-'#' line
\* has five tab-separated fields with fields 2-5 unsigned numbers and
\* line_width >= line_bases, and returns a parse error and no index
\* otherwise; on success the index holds the entry of each such line and
\* nothing else.
C10_FaiLoadSucceedsIffWellFormed ==
    loaded # FaiNotLoaded =>
        IF \A i \in RawDataLines : FiveGoodFields(TabFields(InputLines[i]))
        THEN /\ loaded.res = "ok"
             /\ loaded.entries = {EntryOf(TabFields(InputLines[i])) : i \in RawDataLines}
        ELSE loaded.res = "err" /\ loaded.entries = {}

\* the lines that, without their leading and trailing whitespace, are
\* neither empty nor '#' lines
CoreDataLines ==
    LET ls == InputLines
    IN  {i \in 1..Len(ls) : LineCore(ls[i]) # <<>> /\ Head(LineCore(ls[i])) # "#"}

CoreFields(i) == TabFields(LineCore(InputLines[i]))

\* C10 (amended): either loader succeeds exactly when the text is valid
\* UTF-8 and every line that, with its leading and trailing whitespace
\* (tabs included) removed, is neither empty nor a '#' line has five
\* tab-separated fields with fields 2-5 unsigned numbers (a leading '+'
\* allowed) and line_width >= line_bases; otherwise it returns a parse
\* error and no index.  On success the index holds, for each name, the
\* entry of the last such line with that name, and nothing else.
C10_FaiLoadTrimmedLastWins ==
    loaded # FaiNotLoaded =>
        LET data   == CoreDataLines
            fields == [i \in data |-> CoreFields(i)]
            lastOf == {j \in data : \A k \in data : fields[k][1] = fields[j][1] => k <= j}
        IN  IF ~HasBad(input) /\ \A i \in data : FiveGoodFields(fields[i])
            THEN /\ loaded.res = "ok"
                 /\ loaded.entries = {EntryOf(fields[i]) : i \in lastOf}
            ELSE loaded.res = "err" /\ loaded.entries = {}

\* C11: for every entry of a loaded index and every k below its length,
\* line_width >= line_bases and offset_for_position(k) is defined and is
\* offset + (k div line_bases) * line_width + (k mod line_bases).
C11_OffsetForPositionDefined ==
    last.op = "offset_for_position" =>
        /\ last.entry.line_width >= last.entry.line_bases
        /\ last.res = "ok"
        /\ last.entry.line_bases # 0
        /\ last.v = last.entry.offset
                      + (last.arg \div last.entry.line_bases) * last.entry.line_width
                      + (last.arg % last.entry.line_bases)

\* a load that succeeded on a text with a data line that ends in a tab and
\* with two data lines of one name
C10_Witness ==
    /\ loaded # FaiNotLoaded
    /\ loaded.res = "ok"
    /\ \E i \in CoreDataLines : InputLines[i][Len(InputLines[i])] = TAB
    /\ \E i, j \in CoreDataLines : i < j /\ CoreFields(i)[1] = CoreFields(j)[1]

(***************************************************************************)
(* std::io::BufReader over the text `input`: the buffer holds             *)
(* input[pos+1..filled] and is refilled with up to cap bytes when empty.   *)
(***************************************************************************)
\* std::io::BufReader::new: the default capacity
DEFAULT_BUF_SIZE == 8192

Available(s) == SubSeq(input, s.pos + 1, s.filled)

\* BufReader::fill_buf
buf_fill_buf(s) ==
    IF s.pos >= s.filled
    THEN [s EXCEPT !.filled = Min(s.pos + s.cap, Len(input))]
    ELSE s

\* BufReader::consume
buf_consume(s, amt) == [s EXCEPT !.pos = Min(s.pos + amt, s.filled)]

\* memchr::memchr: the 1-based place of the first c in bytes, 0 for None
memchr(c, bytes) ==
    IF \E i \in 1..Len(bytes) : bytes[i] = c
    THEN CHOOSE i \in 1..Len(bytes) : bytes[i] = c /\ \A j \in 1..(i - 1) : bytes[j] # c
    ELSE 0

\* BufReader::read into a buffer of one byte (smaller than the capacity):
\* [s, n, byte]
buf_read_byte(s) ==
    LET f == buf_fill_buf(s)
    IN  IF Available(f) = <<>> THEN [s |-> f, n |-> 0, byte |-> NUL]
        ELSE [s |-> buf_consume(f, 1), n |-> 1, byte |-> Available(f)[1]]

RECURSIVE read_until(_, _, _, _)
\* BufRead::read_until(delim, buf), n the bytes read so far: [s, buf, n]
read_until(s, delim, buf, n) ==
    LET f         == buf_fill_buf(s)
        available == Available(f)
        i         == memchr(delim, available)
    IN  IF i > 0
        THEN [s |-> buf_consume(f, i), buf |-> buf \o SubSeq(available, 1, i), n |-> n + i]
        ELSE IF available = <<>> THEN [s |-> f, buf |-> buf, n |-> n]
        ELSE read_until(buf_consume(f, Len(available)), delim, buf \o available,
                        n + Len(available))

\* BufRead::read_line (the texts of the model are valid UTF-8)
read_line(s, buf) == read_until(s, LF, buf, 0)

(***************************************************************************)
(* lib.rs: FastARecord                                                     *)
(***************************************************************************)
RECURSIVE read_until_before(_, _, _, _)
\* read_until_before(r, delim, buf), cnt the bytes read so far: the
\* delimiter is appended to buf and left in the stream
read_until_before(s, delim, buf, cnt) ==
    LET f         == buf_fill_buf(s)
        available == Available(f)
        i         == memchr(delim, available)
    IN  IF i > 0
        THEN [s |-> buf_consume(f, i - 1), buf |-> buf \o SubSeq(available, 1, i),
              n |-> cnt + (i - 1)]
        ELSE IF available = <<>> THEN [s |-> f, buf |-> buf, n |-> cnt]
        ELSE read_until_before(buf_consume(f, Len(available)), delim, buf \o available,
                               cnt + Len(available))

RECURSIVE rstrip_newline_string(_)
rstrip_newline_string(str) ==
    IF str # <<>> /\ str[Len(str)] \in {LF, CR}
    THEN rstrip_newline_string(SubSeq(str, 1, Len(str) - 1))
    ELSE str

\* rstrip_seq that pops one byte and stops.
rstrip_seq_Once(v) ==
    IF v # <<>> /\ v[Len(v)] \in {">", LF, CR} THEN SubSeq(v, 1, Len(v) - 1) ELSE v

RECURSIVE rstrip_seq(_)
rstrip_seq(v) ==
    IF v # <<>> /\ v[Len(v)] \in {">", LF, CR}
    THEN rstrip_seq(SubSeq(v, 1, Len(v) - 1))
    ELSE v

\* rstrip_newline_vec that pops one byte and stops.
rstrip_newline_vec_Once(v) ==
    IF v # <<>> /\ v[Len(v)] \in {LF, CR} THEN SubSeq(v, 1, Len(v) - 1) ELSE v

RECURSIVE rstrip_newline_vec(_)
rstrip_newline_vec(v) ==
    IF v # <<>> /\ v[Len(v)] \in {LF, CR}
    THEN rstrip_newline_vec(SubSeq(v, 1, Len(v) - 1))
    ELSE v

\* FastARecord::read(reader): [res, n, s, rec], rec the record's fields
\* when the call returns
FastARecord_read(s) ==
    LET sep == buf_read_byte(s)
    IN  IF sep.n = 0 THEN [res |-> "ok", n |-> 0, s |-> sep.s, rec |-> NoRecord]
        ELSE IF sep.n # 1 /\ sep.byte # ">"
        THEN [res |-> "InvalidData", n |-> 0, s |-> sep.s, rec |-> NoRecord]
        ELSE LET nl == read_line(sep.s, <<>>)
             IN  IF nl.n = 0
                 THEN [res |-> "ok", n |-> 0, s |-> nl.s, rec |-> NoRecord]
                 ELSE LET name == rstrip_newline_string(nl.buf)
                          sq   == read_until_before(nl.s, ">", <<>>, 0)
                      IN  IF sq.n = 0
                          THEN [res |-> "ok", n |-> 0, s |-> sq.s,
                                rec |-> [name |-> name, raw_seq |-> sq.buf]]
                          ELSE [res |-> "ok", n |-> sep.n + nl.n + sq.n, s |-> sq.s,
                                rec |-> [name |-> name, raw_seq |-> rstrip_seq(sq.buf)]]

\* FastARecord::id that cuts after the first space.
id_KeepSpace(name) ==
    IF memchr(SP, name) = 0 THEN name ELSE SubSeq(name, 1, memchr(SP, name))

\* FastARecord::id
id(name) ==
    IF memchr(SP, name) = 0 THEN name ELSE SubSeq(name, 1, memchr(SP, name) - 1)

RECURSIVE SeqLenFold(_, _, _, _)
\* the memchr_iter fold of lib.rs:440-444: <<len, line_start>>
SeqLenFold(raw, i, line_start, len) ==
    IF i >= Len(raw) THEN <<len, line_start>>
    ELSE IF raw[i + 1] = LF
    THEN SeqLenFold(raw, i + 1, i + 1, len + (i - line_start))
    ELSE SeqLenFold(raw, i + 1, line_start, len)

\* FastARecord::seq_len
seq_len(raw) ==
    LET f == SeqLenFold(raw, 0, 0, 0)
    IN  f[1] + Len(raw) - f[2]

(***************************************************************************)
(* The FASTA texts the parser is run on, and the calls on them.            *)
(***************************************************************************)
\* '>' HEADER LF PAYLOAD for each record
RECURSIVE FastaTextOf(_)
FastaTextOf(rs) ==
    IF rs = <<>> THEN <<>>
    ELSE <<">">> \o Head(rs).header \o <<LF>> \o Head(rs).payload \o FastaTextOf(Tail(rs))

FeatureRecords ==
    {[header |-> h, payload |-> p] :
        h \in {<<"a">>, <<"b", SP, "c">>, <<"a", CR>>},
        p \in {<<>>, <<"A", "C">>, <<"A", "C", LF>>, <<"A", LF, "C", LF>>,
               <<"A", "C", LF, LF>>, <<"A", "C", CR, LF>>, <<LF>>,
               <<"A", LF, LF, "C", LF>>}}

BaseRecords ==
    {[header |-> <<"a">>, payload |-> <<"A", "C", LF>>],
     [header |-> <<"b", SP, "c">>, payload |-> <<"A", LF, "C", LF>>]}

\* up to MaxRecs records, one of them drawn from `feature`, the others
\* from `base`
RecordSeqs(feature, base) ==
    {<<>>} \cup
    UNION { {[i \in 1..n |-> IF i = k THEN f ELSE bs[i]] :
                k \in 1..n, f \in feature, bs \in [1..n -> base]}
            : n \in 1..MaxRecs }

\* the text with "x" in place of its first byte
Mangled(text) == IF text = <<>> THEN text ELSE <<"x">> \o Tail(text)

NewStream(cap) == [pos |-> 0, filled |-> 0, cap |-> cap, done |-> FALSE]

FastaInit ==
    /\ build \in {"debug", "release"}
    /\ blocks = <<>>
    /\ gzi = <<>>
    /\ fai = {}
    /\ reader = NewReader
    /\ last = NoLast
    /\ nops = 0
    /\ loaded = NoneOpt
    /\ NoRemote
    /\ \E rs \in RecordSeqs(FeatureRecords, BaseRecords) :
          \/ records = rs /\ input \in {FastaTextOf(rs), Mangled(FastaTextOf(rs))}
          \/ records = <<>> /\ input \in {<<">">>, <<">", "a">>}
    /\ stream \in {NewStream(cap) : cap \in {MinCap, MinCap + 1, DEFAULT_BUF_SIZE}}
    /\ record = NoRecord

\* record.read(&mut reader) on a FastARecord
ReadFasta ==
    /\ last.op \in {"none", "read"}
    /\ nops < MaxReads
    /\ LET x == FastARecord_read(stream)
       IN  /\ stream' = x.s
           /\ record' = x.rec
           /\ last' = [op |-> "read", res |-> x.res, n |-> x.n, from |-> stream.pos]
    /\ nops' = nops + 1
    /\ UNCHANGED <<build, blocks, gzi, fai, reader, input, loaded, records, rvars>>

\* FastXIterator::next that is finished by Ok(0) only, not by an error.
FastXIterator_next_ErrorNotFinal(s, x, none) ==
    IF s.done THEN [s |-> s, res |-> "none", n |-> 0, rec |-> none]
    ELSE [s   |-> [x.s EXCEPT !.done = (x.res = "ok" /\ x.n = 0)],
          res |-> IF x.res = "ok" /\ x.n = 0 THEN "none" ELSE x.res,
          n   |-> x.n,
          rec |-> IF x.res = "ok" /\ x.n > 0 THEN x.rec ELSE none]

\* FastXIterator::next, x the outcome of new_record.read(&mut self.reader)
\* and none the value of T::default(): [s, res, n, rec], res "none" for
\* None, "ok" for Some(Ok(rec)), else the error of Some(Err(e))
FastXIterator_next(s, x, none) ==
    IF s.done THEN [s |-> s, res |-> "none", n |-> 0, rec |-> none]
    ELSE [s   |-> [x.s EXCEPT !.done = (x.res # "ok" \/ x.n = 0)],
          res |-> IF x.res = "ok" /\ x.n = 0 THEN "none" ELSE x.res,
          n   |-> x.n,
          rec |-> IF x.res = "ok" /\ x.n > 0 THEN x.rec ELSE none]

\* FastXIterator<R, FastARecord>::next; `record` keeps the last item
\* yielded once the iterator is finished
NextFasta ==
    /\ last.op \in {"none", "next"}
    /\ nops < MaxReads
    /\ LET y == FastXIterator_next(stream, FastARecord_read(stream), NoRecord)
       IN  /\ stream' = y.s
           /\ record' = IF stream.done THEN record ELSE y.rec
           /\ last' = [op |-> "next", res |-> y.res, n |-> y.n, from |-> stream.pos]
    /\ nops' = nops + 1
    /\ UNCHANGED <<build, blocks, gzi, fai, reader, input, loaded, records, rvars>>

FastaNext == ReadFasta \/ NextFasta

SpecFasta == FastaInit /\ [][FastaNext]_vars

(***************************************************************************)
(* Claims about FastARecord, checked under SpecFasta.                      *)
(***************************************************************************)
\* the text is the records of `records`, written per the grammar
Grammatical == input = FastaTextOf(records)

\* s without its line terminators
Unwrapped(s) == SelectSeq(s, LAMBDA c : c \notin {LF, CR})

\* a field as the parser returns it: without the CR of a CR LF line end
WithoutCR(h) == IF h # <<>> /\ h[Len(h)] = CR THEN SubSeq(h, 1, Len(h) - 1) ELSE h

\* the call reported the end of the input
ReportsEnd ==
    /\ last.n = 0
    /\ last.res = (IF last.op = "read" THEN "ok" ELSE "none")

\* C12: on a text of k records written per the grammar, the j-th read (or
\* iterator step), j <= k, yields record j with name = HEADER and seq =
\* PAYLOAD without line terminators, and every later call reports the end
\* of the input.
C12_FastaRecordsInOrder ==
    (Grammatical /\ last.op \in {"read", "next"}) =>
        IF nops <= Len(records)
        THEN /\ last.res = "ok"
             /\ last.n > 0
             /\ record.name = WithoutCR(records[nops].header)
             /\ seq(record.raw_seq) = Unwrapped(records[nops].payload)
        ELSE ReportsEnd

\* C13: read returns 0 only when no byte was available and none was
\* consumed; a successful read that returns n > 0 removed exactly n bytes
\* and stopped before the '>' of the next record.
C13_ReadZeroOnlyAtCleanEnd ==
    (last.op = "read" /\ last.res = "ok") =>
        /\ last.n = 0 => (last.from = Len(input) /\ stream.pos = last.from)
        /\ last.n > 0 =>
              /\ last.n = stream.pos - last.from
              /\ stream.pos < Len(input) => input[stream.pos + 1] = ">"

\* C14: a read whose first byte is not '>' returns a malformed-input error
\* and yields no record.
C14_FirstByteMustBeSeparator ==
    (/\ last.op \in {"read", "next"}
     /\ last.from < Len(input)
     /\ input[last.from + 1] # ">") =>
        last.res = "InvalidData" /\ record = NoRecord

\* '>' name LF body LF
Emit(name, body) == <<">">> \o name \o <<LF>> \o body \o <<LF>>

\* the bytes the last call removed from the stream
Consumed == SubSeq(input, last.from + 1, stream.pos)

\* every record ends with LF
EveryRecordEndsWithLF ==
    \A i \in 1..Len(records) :
        LET p == records[i].payload IN p # <<>> /\ p[Len(p)] = LF

\* the j-th read returns record j, and re-emitting it gives back the bytes
\* of the text it was read from: byte for byte with the raw sequence, up to
\* the line breaks with seq
ReEmitsInput ==
    IF nops <= Len(records)
    THEN /\ last.res = "ok"
         /\ last.n > 0
         /\ Emit(record.name, record.raw_seq) = Consumed
         /\ NonLF(Emit(record.name, seq(record.raw_seq))) = NonLF(Consumed)
    ELSE ReportsEnd /\ stream.pos = Len(input)

\* C15: on a text whose records all end with LF, reading all records and
\* re-emitting '>' name LF raw sequence LF per record reproduces the text.
C15_RoundTrip ==
    (Grammatical /\ EveryRecordEndsWithLF /\ last.op = "read") => ReEmitsInput

\* every payload ends with one LF that follows neither an LF nor a CR, and
\* no header ends with CR
EveryRecordEndsWithOneLF ==
    \A i \in 1..Len(records) :
        LET p == records[i].payload
            h == records[i].header
        IN  /\ p # <<>> /\ p[Len(p)] = LF
            /\ Len(p) > 1 => p[Len(p) - 1] \notin {LF, CR}
            /\ h = <<>> \/ h[Len(h)] # CR

\* C15 (amended): on a text in which every payload ends with exactly one
\* LF, not preceded by CR, and no header ends with CR, reading all records
\* and re-emitting '>' name LF raw sequence LF per record reproduces the
\* text byte for byte (and with seq, up to the line breaks).
C15_RoundTripOneLF ==
    (Grammatical /\ EveryRecordEndsWithOneLF /\ last.op = "read") => ReEmitsInput

\* the second record of such a text has been read and is a multi-line one
C15_Witness ==
    /\ Grammatical /\ EveryRecordEndsWithOneLF
    /\ last.op = "read" /\ nops = 2 /\ Len(records) = 2
    /\ \E i \in 1..Len(record.raw_seq) : record.raw_seq[i] = LF

\* name up to its first space, all of it when it has none
UpToSpace(name) ==
    IF \A i \in 1..Len(name) : name[i] # SP THEN name
    ELSE SubSeq(name, 1, (CHOOSE i \in 1..Len(name) :
                             name[i] = SP /\ \A j \in 1..(i - 1) : name[j] # SP) - 1)

\* C16: after a read that returned n > 0, id() is the name up to its first
\* space, seq_len() is the number of non-LF bytes of the raw sequence,
\* seq() holds no LF and has seq_len() bytes.
C16_AccessorsAfterRead ==
    (last.op = "read" /\ last.res = "ok" /\ last.n > 0) =>
        /\ id(record.name) = UpToSpace(record.name)
        /\ seq_len(record.raw_seq) =
              Cardinality({i \in 1..Len(record.raw_seq) : record.raw_seq[i] # LF})
        /\ \A i \in 1..Len(seq(record.raw_seq)) : seq(record.raw_seq)[i] # LF
        /\ Len(seq(record.raw_seq)) = seq_len(record.raw_seq)

\* a record with a description and a two-line sequence has been read
C16_Witness ==
    /\ last.op = "read" /\ last.res = "ok" /\ last.n > 0
    /\ \E i \in 1..Len(record.name) : record.name[i] = SP
    /\ \E i \in 1..Len(record.raw_seq) : record.raw_seq[i] = LF

(***************************************************************************)
(* lib.rs: FastQRecord                                                     *)
(***************************************************************************)
\* FastQRecord::default()
NoQRecord == [name |-> <<>>, seq |-> <<>>, comment |-> <<>>, qual |-> <<>>]

\* starts_with that accepts any first character.
starts_with_Any(str, c) == str # <<>>

\* str::starts_with(char)
starts_with(str, c) == str # <<>> /\ str[1] = c

\* FastQRecord::read(reader) on the record rec: [res, n, s, rec], rec the
\* record's fields when the call returns
FastQRecord_read(s, rec) ==
    LET nl   == read_line(s, <<>>)
        name == rstrip_newline_string(nl.buf)
    IN  IF nl.n = 0
        THEN [res |-> "ok", n |-> 0, s |-> nl.s, rec |-> [rec EXCEPT !.name = <<>>]]
        ELSE IF name = <<>> \/ ~starts_with(name, "@")
        THEN [res |-> "InvalidData", n |-> 0, s |-> nl.s, rec |-> [rec EXCEPT !.name = name]]
        ELSE
        LET r1 == [rec EXCEPT !.name = Tail(name)]
            sq == read_until(nl.s, LF, <<>>, 0)
        IN  IF sq.n = 0
            THEN [res |-> "UnexpectedEof", n |-> 0, s |-> sq.s, rec |-> [r1 EXCEPT !.seq = <<>>]]
            ELSE
            LET r2 == [r1 EXCEPT !.seq = rstrip_newline_vec(sq.buf)]
                cm == read_line(sq.s, <<>>)
                comment == rstrip_newline_string(cm.buf)
            IN  IF cm.n = 0
                THEN [res |-> "UnexpectedEof", n |-> 0, s |-> cm.s,
                      rec |-> [r2 EXCEPT !.comment = <<>>]]
                ELSE IF ~starts_with(comment, "+")
                THEN [res |-> "InvalidData", n |-> 0, s |-> cm.s,
                      rec |-> [r2 EXCEPT !.comment = comment]]
                ELSE
                LET r3 == [r2 EXCEPT !.comment = comment]
                    ql == read_until(cm.s, LF, <<>>, 0)
                IN  IF ql.n = 0
                    THEN [res |-> "UnexpectedEof", n |-> 0, s |-> ql.s,
                          rec |-> [r3 EXCEPT !.qual = <<>>]]
                    ELSE [res |-> "ok", n |-> nl.n + sq.n + cm.n + ql.n, s |-> ql.s,
                          rec |-> [r3 EXCEPT !.qual = rstrip_newline_vec(ql.buf)]]

\* FastQRecord::comment that returns the whole plus line.
comment_Whole(rec) == rec.comment

\* FastQRecord::comment
comment(rec) == IF Len(rec.comment) > 0 THEN Tail(rec.comment) ELSE <<>>

(***************************************************************************)
(* The FASTQ texts the parser is run on, and the calls on them.            *)
(***************************************************************************)
\* '@' HEADER LF SEQUENCE LF '+' COMMENT LF QUALITY for each record, an LF
\* between records and, if finalLF, after the last one
RECURSIVE FastqTextOf(_, _)
FastqTextOf(rs, finalLF) ==
    IF rs = <<>> THEN <<>>
    ELSE <<"@">> \o Head(rs).header \o <<LF>> \o Head(rs).seq \o <<LF, "+">>
         \o Head(rs).comment \o <<LF>> \o Head(rs).qual
         \o (IF Len(rs) > 1 \/ finalLF THEN <<LF>> ELSE <<>>)
         \o FastqTextOf(Tail(rs), finalLF)

QBaseRecords ==
    {[header |-> <<"a">>, seq |-> <<"A", "C">>, comment |-> <<>>, qual |-> <<"!", "!">>],
     [header |-> <<"b", SP, "c">>, seq |-> <<"A">>, comment |-> <<"c">>, qual |-> <<"#">>]}

QFeatureRecords ==
    {[header |-> h, seq |-> q, comment |-> c, qual |-> l] :
        h \in {<<"a">>, <<"@", "a">>, <<>>}, q \in {<<"A", "C">>, <<>>},
        c \in {<<>>, <<"+">>}, l \in {<<"!", "!">>, <<"!">>, <<>>}}
    \cup {[header |-> <<"a", CR>>, seq |-> <<"A", "C", CR>>, comment |-> <<"c", CR>>,
           qual |-> <<"!", "!", CR>>]}

\* texts that are cut short or do not follow the grammar
QBrokenTexts ==
    UNION { {SubSeq(FastqTextOf(rs, TRUE), 1, len) : len \in 0..Len(FastqTextOf(rs, TRUE))}
            \cup {Mangled(FastqTextOf(rs, TRUE))}
            : rs \in RecordSeqs(QBaseRecords, QBaseRecords) }
    \cup {<<LF>>, <<CR, LF, "@", "a", LF>>,
          <<"@", "a", LF, "A", "C", LF, "x", LF, "!", "!", LF>>,
          <<"@", "a", LF, "A", "C", LF, LF, "!", "!", LF>>}

FastqInit ==
    /\ build \in {"debug", "release"}
    /\ blocks = <<>>
    /\ gzi = <<>>
    /\ fai = {}
    /\ reader = NewReader
    /\ last = NoLast
    /\ nops = 0
    /\ loaded = NoneOpt
    /\ NoRemote
    /\ \/ \E rs \in RecordSeqs(QFeatureRecords, QBaseRecords) :
             records = rs /\ input \in {FastqTextOf(rs, TRUE), FastqTextOf(rs, FALSE)}
       \/ records = <<>> /\ input \in QBrokenTexts
    /\ stream \in {NewStream(cap) : cap \in {MinCap, MinCap + 1, DEFAULT_BUF_SIZE}}
    /\ record = NoQRecord

\* record.read(&mut reader) on a FastQRecord
ReadFastq ==
    /\ last.op \in {"none", "read"}
    /\ nops < MaxReads
    /\ LET x == FastQRecord_read(stream, record)
       IN  /\ stream' = x.s
           /\ record' = x.rec
           /\ last' = [op |-> "read", res |-> x.res, n |-> x.n, from |-> stream.pos]
    /\ nops' = nops + 1
    /\ UNCHANGED <<build, blocks, gzi, fai, reader, input, loaded, records, rvars>>

\* FastXIterator<R, FastQRecord>::next
NextFastq ==
    /\ last.op \in {"none", "next"}
    /\ nops < MaxReads
    /\ LET y == FastXIterator_next(stream, FastQRecord_read(stream, NoQRecord), NoQRecord)
       IN  /\ stream' = y.s
           /\ record' = IF stream.done THEN record ELSE y.rec
           /\ last' = [op |-> "next", res |-> y.res, n |-> y.n, from |-> stream.pos]
    /\ nops' = nops + 1
    /\ UNCHANGED <<build, blocks, gzi, fai, reader, input, loaded, records, rvars>>

FastqNext == ReadFastq \/ NextFastq

SpecFastq == FastqInit /\ [][FastqNext]_vars

(***************************************************************************)
(* Claims about FastQRecord, checked under SpecFastq.                      *)
(***************************************************************************)
GrammaticalQ == input \in {FastqTextOf(records, TRUE), FastqTextOf(records, FALSE)}

\* C17: on a text of k four-line records, the j-th read (or iterator
\* step), j <= k, yields record j with name = HEADER, seq = SEQUENCE,
\* comment = COMMENT and qual = QUALITY, and every later call reports the
\* end of the input.
FastqRecordsInOrder ==
    IF nops <= Len(records)
    THEN /\ last.res = "ok"
         /\ last.n > 0
         /\ record.name = WithoutCR(records[nops].header)
         /\ record.seq = WithoutCR(records[nops].seq)
         /\ comment(record) = WithoutCR(records[nops].comment)
         /\ record.qual = WithoutCR(records[nops].qual)
    ELSE ReportsEnd

LFsAfter(from) == {i \in (from + 1)..Len(input) : input[i] = LF}

\* the number of lines after the first `from` bytes, a last line without LF
\* counted
LineCount(from) ==
    Cardinality(LFsAfter(from))
      + (IF from < Len(input) /\ input[Len(input)] # LF THEN 1 ELSE 0)

\* the k-th line after the first `from` bytes, without its line end (the LF
\* and every CR before it)
LineText(from, k) ==
    LET lfs     == LFsAfter(from)
        nth(j)  == CHOOSE p \in lfs : Cardinality({q \in lfs : q < p}) = j - 1
        first   == IF k = 1 THEN from + 1 ELSE nth(k - 1) + 1
        lastB   == IF k <= Cardinality(lfs) THEN nth(k) - 1 ELSE Len(input)
        solid   == {i \in first..lastB : input[i] # CR}
    IN  IF solid = {} THEN <<>>
        ELSE SubSeq(input, first, CHOOSE i \in solid : \A j \in solid : j <= i)

\* what a read from the first `from` bytes on has to return
ExpectedQ(from) ==
    LET n == LineCount(from)
    IN  IF LineText(from, 1) = <<>> \/ LineText(from, 1)[1] # "@" THEN "InvalidData"
        ELSE IF n < 3 THEN "UnexpectedEof"
        ELSE IF LineText(from, 3) = <<>> \/ LineText(from, 3)[1] # "+" THEN "InvalidData"
        ELSE IF n < 4 THEN "UnexpectedEof"
        ELSE "ok"

\* C18: read returns 0 exactly when the stream is at the end of the input;
\* otherwise invalid data when the header line is empty or does not start
\* with '@', unexpected end when the input ends before the sequence or the
\* plus line, invalid data when the plus line does not start with '+',
\* unexpected end when the input ends before the quality line.
C18_FastqReadErrors ==
    last.op = "read" =>
        /\ (last.res = "ok" /\ last.n = 0) <=> last.from = Len(input)
        /\ last.from < Len(input) => last.res = ExpectedQ(last.from)

\* all four outcomes: this one is the unexpected end before the plus line
C18_Witness ==
    /\ last.op = "read" /\ last.res = "UnexpectedEof"
    /\ LineCount(last.from) = 2

\* C19: after a successful read name() does not begin with '@', comment()
\* does not begin with '+', and neither seq nor qual ends with LF or CR.
C19_FastqFieldsStripped ==
    (last.op = "read" /\ last.res = "ok" /\ last.n > 0) =>
        /\ record.name = <<>> \/ record.name[1] # "@"
        /\ comment(record) = <<>> \/ comment(record)[1] # "+"
        /\ record.seq = <<>> \/ record.seq[Len(record.seq)] \notin {LF, CR}
        /\ record.qual = <<>> \/ record.qual[Len(record.qual)] \notin {LF, CR}

\* C19 (amended): after a successful read name() is the header line
\* without its first '@' and its line end, comment() the plus line without
\* its first '+' and its line end, and neither seq nor qual ends with LF or
\* CR.
C19_FastqFirstMarkStripped ==
    (last.op = "read" /\ last.res = "ok" /\ last.n > 0) =>
        /\ record.name = Tail(LineText(last.from, 1))
        /\ comment(record) = Tail(LineText(last.from, 3))
        /\ record.seq = <<>> \/ record.seq[Len(record.seq)] \notin {LF, CR}
        /\ record.qual = <<>> \/ record.qual[Len(record.qual)] \notin {LF, CR}

\* a record whose header line begins with "@@" has been read
C19_Witness ==
    /\ last.op = "read" /\ last.res = "ok" /\ last.n > 0
    /\ record.name # <<>> /\ record.name[1] = "@"

\* C20: every record a successful read produced has sequence and quality
\* of equal length.
C20_SeqAndQualSameLength ==
    (last.op \in {"read", "next"} /\ last.res = "ok" /\ last.n > 0) =>
        Len(record.seq) = Len(record.qual)

(***************************************************************************)
(* lib.rs: peek, the for_each drivers and the iterators, on one stream     *)
(***************************************************************************)
\* peek(reader): the format, "InvalidData", or "panic" when buf[0] is out
\* of bounds; fill_buf leaves the position where it was
peek(s) ==
    LET f   == buf_fill_buf(s)
        buf == Available(f)
    IN  IF buf = <<>> THEN [res |-> "panic", s |-> f]
        ELSE IF buf[1] = ">" THEN [res |-> "FASTA", s |-> f]
        ELSE IF buf[1] = "@" THEN [res |-> "FASTQ", s |-> f]
        ELSE IF buf[1] = NUL THEN [res |-> "EOF", s |-> f]
        ELSE [res |-> "InvalidData", s |-> f]

RECURSIVE fasta_for_each_CallFirst(_, _)
\* the loop body of a fasta_for_each that hands the record to func before
\* looking at what read returned
FastaVisit_CallFirst(x, calls) ==
    IF x.res # "ok" THEN [res |-> x.res, calls |-> Append(calls, x.rec), s |-> x.s]
    ELSE IF x.n > 0 THEN fasta_for_each_CallFirst(x.s, Append(calls, x.rec))
    ELSE [res |-> "ok", calls |-> Append(calls, x.rec), s |-> x.s]

\* fasta_for_each that hands the record to func before looking at what
\* read returned.
fasta_for_each_CallFirst(s, calls) == FastaVisit_CallFirst(FastARecord_read(s), calls)

RECURSIVE fasta_for_each(_, _)
\* lib.rs:888-893: x the outcome of record.read(&mut reader)
FastaVisit(x, calls) ==
    IF x.res # "ok" THEN [res |-> x.res, calls |-> calls, s |-> x.s]
    ELSE IF x.n > 0 THEN fasta_for_each(x.s, Append(calls, x.rec))
    ELSE [res |-> "ok", calls |-> calls, s |-> x.s]

\* fasta_for_each(reader, func), calls the records func was given so
\* far: [res, calls, s]
fasta_for_each(s, calls) == FastaVisit(FastARecord_read(s), calls)

RECURSIVE fastq_for_each(_, _, _)
\* lib.rs:923-928: x the outcome of record.read(&mut reader)
FastqVisit(x, calls) ==
    IF x.res # "ok" THEN [res |-> x.res, calls |-> calls, s |-> x.s]
    ELSE IF x.n > 0 THEN fastq_for_each(x.s, x.rec, Append(calls, x.rec))
    ELSE [res |-> "ok", calls |-> calls, s |-> x.s]

\* fastq_for_each(reader, func), rec the one record every read fills
fastq_for_each(s, rec, calls) == FastqVisit(FastQRecord_read(s, rec), calls)

\* lib.rs:961-973: p the outcome of peek(&mut reader)
FastxDispatch(p) ==
    IF p.res \in {"panic", "InvalidData"} THEN [res |-> p.res, calls |-> <<>>, s |-> p.s]
    ELSE IF p.res = "FASTA" THEN fasta_for_each(p.s, <<>>)
    ELSE IF p.res = "FASTQ" THEN fastq_for_each(p.s, NoQRecord, <<>>)
    ELSE [res |-> "InvalidData", calls |-> <<>>, s |-> p.s]

\* fastx_for_each(reader, fasta_func, fastq_func)
fastx_for_each(s) == FastxDispatch(peek(s))

\* a text that starts with neither '>' nor '@'
FastxOther ==
    /\ build \in {"debug", "release"}
    /\ blocks = <<>>
    /\ gzi = <<>>
    /\ fai = {}
    /\ reader = NewReader
    /\ last = NoLast
    /\ nops = 0
    /\ loaded = NoneOpt
    /\ NoRemote
    /\ records = <<>>
    /\ input \in {<<NUL>>, <<NUL, ">", "a", LF, "A", LF>>, <<LF, ">", "a", LF, "A", LF>>}
    /\ stream \in {NewStream(cap) : cap \in {MinCap, MinCap + 1, DEFAULT_BUF_SIZE}}
    /\ record = NoRecord

\* a FASTA text, a FASTQ text, or a text that is neither; the parsers
\* compute nothing that depends on the build
FastxInit ==
    /\ build = "release"
    /\ \/ FastaInit
       \/ FastqInit
       \/ FastxOther

\* peek(&mut reader), on a fresh reader or after an iterator over it
Peek ==
    /\ last.op \in {"none", "peek", "next"}
    /\ last.res # "panic"
    /\ nops < MaxReads
    /\ LET p == peek(stream)
       IN  /\ stream' = p.s
           /\ last' = [op |-> "peek", res |-> p.res, from |-> stream.pos]
    /\ nops' = nops + 1
    /\ UNCHANGED <<build, blocks, gzi, fai, reader, input, loaded, records, record, rvars>>

\* a reader nothing was read from, possibly peeked at
Unread ==
    /\ last.op \in {"none", "peek"}
    /\ last.res # "panic"
    /\ stream.pos = 0

ForEachFasta ==
    /\ Unread
    /\ LET x == fasta_for_each(stream, <<>>)
       IN  /\ stream' = x.s
           /\ last' = [op |-> "fasta_for_each", res |-> x.res, calls |-> x.calls]
    /\ nops' = nops + 1
    /\ UNCHANGED <<build, blocks, gzi, fai, reader, input, loaded, records, record, rvars>>

ForEachFastq ==
    /\ Unread
    /\ LET x == fastq_for_each(stream, NoQRecord, <<>>)
       IN  /\ stream' = x.s
           /\ last' = [op |-> "fastq_for_each", res |-> x.res, calls |-> x.calls]
    /\ nops' = nops + 1
    /\ UNCHANGED <<build, blocks, gzi, fai, reader, input, loaded, records, record, rvars>>

ForEachFastx ==
    /\ Unread
    /\ LET x == fastx_for_each(stream)
       IN  /\ stream' = x.s
           /\ last' = [op |-> "fastx_for_each", res |-> x.res, calls |-> x.calls]
    /\ nops' = nops + 1
    /\ UNCHANGED <<build, blocks, gzi, fai, reader, input, loaded, records, record, rvars>>

\* fasta_iter(reader).next(): the items of one iterator are of one type
IterFasta ==
    /\ last.op = "none" \/ "raw_seq" \in DOMAIN record
    /\ NextFasta

\* fastq_iter(reader).next()
IterFastq ==
    /\ last.op = "none" \/ "qual" \in DOMAIN record
    /\ NextFastq

FastxNext ==
    \/ Peek
    \/ ForEachFasta
    \/ ForEachFastq
    \/ ForEachFastx
    \/ IterFasta
    \/ IterFastq

SpecFastx == FastxInit /\ [][FastxNext]_vars

(***************************************************************************)
(* Claims about the iterators, the drivers and peek, under SpecFastx.      *)
(***************************************************************************)
\* the iterator is over FastQRecord
OverFastq == "qual" \in DOMAIN record

\* read on a fresh record at s
FreshRead(s, q) == IF q THEN FastQRecord_read(s, NoQRecord) ELSE FastARecord_read(s)

RECURSIVE KthRead(_, _, _)
\* the k-th of the reads made one after the other from s, "over" when an
\* earlier one failed or returned 0
KthRead(s, q, k) ==
    LET x == FreshRead(s, q)
    IN  IF k = 1 THEN x
        ELSE IF x.res = "ok" /\ x.n > 0 THEN KthRead(x.s, q, k - 1)
        ELSE [res |-> "over", n |-> 0, s |-> x.s, rec |-> x.rec]

\* what the k-th next() is to return
KthItem(q, k) ==
    LET x == KthRead(NewStream(stream.cap), q, k)
    IN  IF x.res = "over" \/ (x.res = "ok" /\ x.n = 0) THEN "none" ELSE x.res

\* C21: the k-th next() yields the record of the k-th read while the reads
\* succeed, in input order; the first read error is yielded once; after it,
\* and after end-of-input, every next() returns None and leaves the stream
\* as it is.
C21_IteratorYieldsThenStops ==
    /\ [](last.op = "next" =>
            /\ last.res = KthItem(OverFastq, nops)
            /\ last.res = "ok" =>
                 record = KthRead(NewStream(stream.cap), OverFastq, nops).rec)
    /\ [][(last.op = "next" /\ last.res # "ok" /\ last'.op = "next") =>
            (last'.res = "none" /\ stream' = stream)]_vars

\* an iterator yielded a record, then an error, then None
C21_Witness ==
    /\ last.op = "next"
    /\ nops = 3
    /\ last.res = "none"
    /\ KthItem(OverFastq, 1) = "ok"
    /\ KthItem(OverFastq, 2) \in {"InvalidData", "UnexpectedEof"}

RECURSIVE IterRun(_, _, _)
\* the records an iterator from s yields before its first error or None,
\* and that error or "none"
IterRun(s, q, yields) ==
    LET y == FastXIterator_next(s, FreshRead(s, q), IF q THEN NoQRecord ELSE NoRecord)
    IN  IF y.res = "ok" THEN IterRun(y.s, q, Append(yields, y.rec))
        ELSE [yields |-> yields, end |-> y.res]

\* C22: fasta_for_each / fastq_for_each hand func exactly the records the
\* iterator yields before its first error or end-of-input, in that order;
\* they return Ok at end-of-input and the iterator's first error otherwise.
C22_ForEachVisitsWhatIteratorYields ==
    last.op \in {"fasta_for_each", "fastq_for_each"} =>
        LET it == IterRun(NewStream(stream.cap), last.op = "fastq_for_each", <<>>)
        IN  /\ last.calls = it.yields
            /\ last.res = (IF it.end = "none" THEN "ok" ELSE it.end)

\* fastq_for_each visited two records with the one record object, the
\* second shorter than the first in every field
C22_Witness ==
    /\ last.op = "fastq_for_each"
    /\ Len(last.calls) = 2
    /\ \A f \in {"name", "seq", "comment", "qual"} :
          Len(last.calls[2][f]) < Len(last.calls[1][f])

\* the bytes not yet consumed when the last call was made
RestAtCall == SubSeq(input, last.from + 1, Len(input))

\* C23: peek consumes nothing and classifies the stream by its next byte:
\* '>' FASTA, '@' FASTQ, NUL or no byte end-of-input, else invalid data.
C23_PeekClassifiesNextByte ==
    last.op = "peek" =>
        /\ stream.pos = last.from
        /\ last.res = (IF RestAtCall = <<>> THEN "EOF"
                       ELSE IF RestAtCall[1] = ">" THEN "FASTA"
                       ELSE IF RestAtCall[1] = "@" THEN "FASTQ"
                       ELSE IF RestAtCall[1] = NUL THEN "EOF"
                       ELSE "InvalidData")

(***************************************************************************)
(* BGZF files as bytes: gzip members whose extra field holds the BC        *)
(* subfield, and members that are broken in one place.                     *)
(***************************************************************************)
\* the deflate stream of a payload (see inflate)
Deflated(payload) == IF payload = <<>> THEN <<3, 0>> ELSE <<1, Len(payload)>> \o payload

\* SI1 SI2 SLEN BSIZE
BcField(slen, bsize) ==
    <<BGZF_EXTRA_ID, BGZF_EXTRA_SUBFIELD, slen, 0, bsize % 256, bsize \div 256>>

\* a gzip member: 12 header bytes, the extra field, the deflate stream,
\* CRC32 and ISIZE (neither is looked at by the reader)
GzipMember(id1, id2, cm, flg, extra, cdata) ==
    <<id1, id2, cm, flg, 0, 0, 0, 0, 0, 255, Len(extra) % 256, Len(extra) \div 256>>
    \o extra \o cdata \o <<0, 0, 0, 0, 0, 0, 0, 0>>

\* BSIZE of a member with this extra-field and deflate-stream length
BsizeOf(xlen, clen) == HeaderLen + xlen + clen + TrailerLen - 1

\* the member bgzip writes for a payload, other subfields `before` the BC one
BgzfMember(before, payload) ==
    GzipMember(GZIP_ID1, GZIP_ID2, GZIP_CM_DEFLATE, GZIP_FLG_FEXTRA,
               before \o BcField(2, BsizeOf(Len(before) + ExtraLen, Len(Deflated(payload)))),
               Deflated(payload))

RECURSIVE FileOf(_)
FileOf(bl) == IF bl = <<>> THEN <<>> ELSE BgzfMember(<<>>, Head(bl)) \o FileOf(Tail(bl))

\* a member for the payload 'AB' that is broken in one place
BrokenMembers ==
    LET c  == Deflated(<<65, 66>>)
        ok == BcField(2, BsizeOf(ExtraLen, Len(c)))
    IN  {GzipMember(0, GZIP_ID2, GZIP_CM_DEFLATE, GZIP_FLG_FEXTRA, ok, c),
         GzipMember(GZIP_ID1, 0, GZIP_CM_DEFLATE, GZIP_FLG_FEXTRA, ok, c),
         GzipMember(GZIP_ID1, GZIP_ID2, 0, GZIP_FLG_FEXTRA, ok, c),
         GzipMember(GZIP_ID1, GZIP_ID2, GZIP_CM_DEFLATE, 0, ok, c),
         GzipMember(GZIP_ID1, GZIP_ID2, GZIP_CM_DEFLATE, 8, ok, c)}
        \cup
        {GzipMember(GZIP_ID1, GZIP_ID2, GZIP_CM_DEFLATE, GZIP_FLG_FEXTRA, extra, c) :
            extra \in {<<>>, <<88, 89, 2, 0, 9, 9>>, <<88, 89, 9, 0, 1, 1>>,
                       <<BGZF_EXTRA_ID, BGZF_EXTRA_SUBFIELD, 2, 0>>,
                       <<BGZF_EXTRA_ID, BGZF_EXTRA_SUBFIELD, 2, 0, 28>>,
                       <<88, 89, 1, 0, 7, BGZF_EXTRA_ID, BGZF_EXTRA_SUBFIELD, 2, 0>>,
                       BcField(3, BsizeOf(ExtraLen + 1, Len(c))) \o <<0>>,
                       BcField(2, 0), BcField(2, HeaderLen + ExtraLen + TrailerLen - 1)}}

\* the member for the payload 'AB', cut short
CutMembers ==
    {SubSeq(BgzfMember(<<>>, <<65, 66>>), 1, n) :
        n \in 1..(Len(BgzfMember(<<>>, <<65, 66>>)) - 1)}

\* up to MaxMembers payloads
PayloadSeqs ==
    UNION {[1..n -> {<<>>, <<65, 66>>, <<67>>}] : n \in 0..MaxMembers}

\* a file of whole members, `blocks` their payloads; or a file whose first
\* or second member is broken or which ends in the middle of a member,
\* `blocks` left empty
BlockInit ==
    /\ build \in {"debug", "release"}
    /\ gzi = <<>>
    /\ fai = {}
    /\ reader = NewReader
    /\ last = NoLast
    /\ nops = 0
    /\ loaded = NoneOpt
    /\ NoRemote
    /\ NoParser
    /\ \/ \E bl \in PayloadSeqs : blocks = bl /\ input = FileOf(bl)
       \/ /\ blocks = <<>>
          /\ \E m \in BrokenMembers, pre \in {<<>>, <<67>>}, post \in {<<>>, <<67>>} :
                input = (IF pre = <<>> THEN <<>> ELSE BgzfMember(<<>>, pre)) \o m
                        \o (IF post = <<>> THEN <<>> ELSE BgzfMember(<<>>, post))
       \/ /\ blocks = <<>>
          /\ \E m \in CutMembers, pre \in {<<>>, <<67>>} :
                input = (IF pre = <<>> THEN <<>> ELSE BgzfMember(<<>>, pre)) \o m
       \/ /\ blocks = << <<65, 66>>, <<67>> >>
          /\ input = BgzfMember(<<88, 89, 1, 0, 7>>, <<65, 66>>) \o BgzfMember(<<>>, <<67>>)

BlockNext == \E k \in 1..MaxRead : Read(k)

SpecBlock == BlockInit /\ [][BlockNext]_vars

(***************************************************************************)
(* Claims about the decoding of blocks, under SpecBlock.                   *)
(***************************************************************************)
\* XLEN and the extra field of the member the file starts with
FirstXlen == input[11] + 256 * input[12]
FirstExtra == SubSeq(input, HeaderLen + 1, HeaderLen + FirstXlen)

RECURSIVE BsizeFrom(_, _)
\* BSIZE + 1 as the BC subfield (SI1 = 66, SI2 = 67, SLEN = 2) among the
\* complete subfields of extra from offset `at` on gives it, 0 if there is none
BsizeFrom(extra, at) ==
    IF at + 4 > Len(extra) THEN 0
    ELSE LET slen == extra[at + 3] + 256 * extra[at + 4]
         IN  IF at + 4 + slen > Len(extra) THEN 0
             ELSE IF extra[at + 1] = 66 /\ extra[at + 2] = 67 /\ slen = 2
             THEN extra[at + 5] + 256 * extra[at + 6] + 1
             ELSE BsizeFrom(extra, at + 4 + slen)

\* the member the file starts with is broken in one of the ways named
FirstMemberBroken ==
    \/ Len(input) < HeaderLen
    \/ input[1] # 31 \/ input[2] # 139
    \/ input[3] # 8
    \/ (input[4] \div 4) % 2 = 0
    \/ Len(input) < HeaderLen + FirstXlen
    \/ BsizeFrom(FirstExtra, 0) = 0
    \/ BsizeFrom(FirstExtra, 0) - HeaderLen - FirstXlen - TrailerLen <= 0
    \/ Len(input) < BsizeFrom(FirstExtra, 0)

\* C24: a block with invalid magic, a CM other than deflate, FEXTRA not
\* set, no complete BC subfield, a compressed size <= 0, or cut short makes
\* the read return an error value: it neither fails otherwise nor delivers
\* bytes.
C24_BrokenBlockIsAnError ==
    (last.op = "read" /\ nops = 1 /\ input # <<>> /\ FirstMemberBroken) =>
        (last.res = "err" /\ last.data = <<>>)

\* C27: on a file of whole blocks a read into a non-empty buffer returns 0
\* bytes only when every byte of the stream has been delivered; a block
\* that holds no bytes does not end the stream while later blocks hold
\* data.
C27_ZeroBytesOnlyAtEndOfStream ==
    (last.op = "read" /\ last.res = "ok" /\ last.data = <<>> /\ blocks # <<>>) =>
        last.pos = Len(Stream)

(***************************************************************************)
(* remote.rs: RemoteReader.  The resource is the bytes of `input`; the     *)
(* server answers a ranged GET with the range (206), with the whole        *)
(* resource (200, a server that ignores Range), or with another status.    *)
(***************************************************************************)
Servers == {"range", "whole", "refuse"}

\* the response to GET with Range: bytes=lo-hi
Respond(server, lo, hi) ==
    IF server = "range" THEN [status |-> 206, body |-> SubSeq(input, lo + 1, hi + 1)]
    ELSE IF server = "whole" THEN [status |-> 200, body |-> input]
    ELSE [status |-> 404, body |-> <<>>]

\* RemoteReader::new(url).with_block_size(size): the HEAD has been answered
\* with Content-Length = file_size
NewRemote(file_size, size) ==
    [pos |-> 0, file_size |-> file_size, block_size |-> size, cache |-> <<>>]

block_start(r, pos) == (pos \div r.block_size) * r.block_size

\* file_size.saturating_sub(1)
SaturatingPred(n) == IF n = 0 THEN 0 ELSE n - 1

\* fetch_block(offset): [res, gets, data], gets the GET it issued, if any,
\* with the status it was answered with
fetch_block(r, offset, server) ==
    LET end   == Min(offset + r.block_size - 1, SaturatingPred(r.file_size))
        hi    == IF end < offset THEN r.file_size - 1 ELSE end
        resp  == Respond(server, offset, hi)
        asked == <<[lo |-> offset, hi |-> hi, status |-> resp.status]>>
    IN  IF offset >= r.file_size THEN [res |-> "err", gets |-> <<>>, data |-> <<>>]
        ELSE IF resp.status # 206 /\ resp.status # 200
        THEN [res |-> "err", gets |-> asked, data |-> <<>>]
        ELSE [res |-> "ok", gets |-> asked, data |-> resp.body]

\* cache.insert(key, block)
CacheInsert(cache, key, data) ==
    [k \in DOMAIN cache \cup {key} |-> IF k = key THEN data ELSE cache[k]]

\* block.data[offset_in_block..].to_vec(): [res, data]
SliceFrom(data, offset_in_block) ==
    IF offset_in_block > Len(data) THEN [res |-> "panic", data |-> <<>>]
    ELSE [res |-> "ok", data |-> SubSeq(data, offset_in_block + 1, Len(data))]

\* get_data_at(offset) by one thread: [res, r, data, gets]
get_data_at(r, offset, server) ==
    LET key == block_start(r, offset)
    IN  IF key \in DOMAIN r.cache
        THEN LET s == SliceFrom(r.cache[key], offset - key)
             IN  [res |-> s.res, r |-> r, data |-> s.data, gets |-> <<>>]
        ELSE LET block == fetch_block(r, key, server)
                 r1    == [r EXCEPT !.cache = CacheInsert(r.cache, key, block.data)]
                 s     == SliceFrom(block.data, offset - key)
             IN  IF block.res # "ok"
                 THEN [res |-> "err", r |-> r, data |-> <<>>, gets |-> block.gets]
                 ELSE [res |-> s.res, r |-> r1, data |-> s.data, gets |-> block.gets]

\* impl Read for RemoteReader, buf.len() = k: [res, r, data, gets]
RemoteReader_read(r, k, server) ==
    IF r.pos >= r.file_size THEN [res |-> "ok", r |-> r, data |-> <<>>, gets |-> <<>>]
    ELSE LET remaining   == r.file_size - r.pos
             to_read     == Min(k, remaining)
             d           == get_data_at(r, r.pos, server)
             actual_read == Min(to_read, Len(d.data))
         IN  IF d.res # "ok" THEN [res |-> d.res, r |-> d.r, data |-> <<>>, gets |-> d.gets]
             ELSE [res |-> "ok", r |-> [d.r EXCEPT !.pos = @ + actual_read],
                   data |-> SubSeq(d.data, 1, actual_read), gets |-> d.gets]

\* impl Seek for RemoteReader: [res, r]; whence "Start", "End" or "Current"
RemoteReader_seek(r, whence, offset) ==
    LET base   == IF whence = "End" THEN r.file_size ELSE r.pos
        target == IF whence = "Start" THEN offset ELSE base + offset
    IN  IF target < 0 THEN [res |-> "err", r |-> r]
        ELSE [res |-> "ok", r |-> [r EXCEPT !.pos = target]]

\* the resource: MaxFile bytes or fewer, byte i of it being i
RemoteInit ==
    /\ build = "release"
    /\ blocks = <<>>
    /\ gzi = <<>>
    /\ fai = {}
    /\ reader = NewReader
    /\ last = NoLast
    /\ nops = 0
    /\ loaded = NoneOpt
    /\ NoParser
    /\ \E file_size \in 0..MaxFile, size \in 1..MaxBlockSize :
          /\ input = [i \in 1..file_size |-> i - 1]
          /\ remote = NewRemote(file_size, size)
    /\ net = [heads |-> 1, gets |-> <<>>, served |-> {}]
    /\ pc = <<>>

\* reader.read(&mut buf) with buf.len() = k
RemoteRead(k) ==
    /\ nops < MaxCalls
    /\ last.res # "panic"
    /\ \E server \in Servers :
         LET x == RemoteReader_read(remote, k, server)
         IN  /\ remote' = x.r
             /\ net' = [net EXCEPT !.gets = @ \o x.gets,
                                   !.served = @ \cup {<<remote.pos + i - 1, x.data[i]>> :
                                                         i \in 1..Len(x.data)}]
             /\ last' = [op |-> "remote_read", arg |-> k, from |-> remote.pos,
                         res |-> x.res, data |-> x.data, gets |-> x.gets]
    /\ nops' = nops + 1
    /\ UNCHANGED <<build, blocks, gzi, fai, reader, input, loaded, pvars, pc>>

\* reader.seek(SeekFrom::Start(o) | End(o) | Current(o))
RemoteSeek(whence, o) ==
    /\ nops < MaxCalls
    /\ last.res # "panic"
    /\ LET x == RemoteReader_seek(remote, whence, o)
       IN  /\ remote' = x.r
           /\ last' = [op |-> "remote_seek", arg |-> o, from |-> remote.pos, res |-> x.res]
    /\ nops' = nops + 1
    /\ UNCHANGED <<build, blocks, gzi, fai, reader, input, loaded, pvars, net, pc>>

RemoteNext ==
    \/ \E k \in 1..MaxRead : RemoteRead(k)
    \/ \E o \in 0..(MaxFile + 1) : RemoteSeek("Start", o)
    \/ \E o \in {-1, 0} : RemoteSeek("End", o)
    \/ \E o \in {-2, 1} : RemoteSeek("Current", o)

SpecRemote == RemoteInit /\ [][RemoteNext]_vars

(***************************************************************************)
(* Claims about the remote reader, under SpecRemote.                       *)
(***************************************************************************)
\* the GETs issued so far that were answered with a status the reader accepts
Accepted == {i \in 1..Len(net.gets) : net.gets[i].status \in {200, 206}}

\* C25: one HEAD is issued, at construction; a GET is issued only by a read
\* that starts in a block not yet cached, for the block_size-aligned range
\* of that block; a block that was fetched is not requested again; every
\* byte served lies in a block that was fetched, so a span touching m
\* uncached blocks costs m GETs; and a position is always served the same
\* byte.
C25_OneHeadOneGetPerBlock ==
    /\ [](/\ net.heads = 1
          /\ \A i \in 1..Len(net.gets) :
                /\ net.gets[i].lo % remote.block_size = 0
                /\ net.gets[i].hi = Min(net.gets[i].lo + remote.block_size - 1,
                                        remote.file_size - 1)
                /\ \A j \in Accepted : j < i => net.gets[j].lo # net.gets[i].lo
          /\ \A x \in net.served :
                /\ \E i \in Accepted : net.gets[i].lo = block_start(remote, x[1])
                /\ \A y \in net.served : x[1] = y[1] => x[2] = y[2])
    /\ [][net'.gets # net.gets =>
            /\ last'.op = "remote_read"
            /\ block_start(remote, remote.pos) \notin DOMAIN remote.cache
            /\ net'.gets = Append(net.gets, net'.gets[Len(net'.gets)])
            /\ net'.gets[Len(net'.gets)].lo = block_start(remote, remote.pos)]_vars

\* C28: a successful read at p < file_size returns n >= 1 bytes, the bytes
\* p .. p+n of the resource, and moves the position to p + n <= file_size,
\* whether the GET was answered 206 or 200 with the whole resource; a read
\* at p >= file_size returns 0 and issues no request.
C28_ReadReturnsResourceBytes ==
    last.op = "remote_read" =>
        IF last.from < remote.file_size
        THEN last.res = "ok" =>
                /\ Len(last.data) >= 1
                /\ last.data = SubSeq(input, last.from + 1, last.from + Len(last.data))
                /\ remote.pos = last.from + Len(last.data)
                /\ remote.pos <= remote.file_size
        ELSE last.res = "ok" /\ last.data = <<>> /\ last.gets = <<>>

(***************************************************************************)
(* remote.rs: get_data_at run by two threads on one reader.  The mutex is  *)
(* taken three times in a call: for contains_key, for insert, and for get; *)
(* fetch_block runs with the mutex released.  pc[t] is the place thread t  *)
(* has reached in its call, the offset it asked for, the block it fetched  *)
(* and what it returned.                                                   *)
(***************************************************************************)
Threads == {1, 2}

Idle == [at |-> "idle", offset |-> 0, block |-> <<>>, res |-> "ok", data |-> <<>>]

SharedInit ==
    /\ build = "release"
    /\ blocks = <<>>
    /\ gzi = <<>>
    /\ fai = {}
    /\ reader = NewReader
    /\ last = NoLast
    /\ nops = 0
    /\ loaded = NoneOpt
    /\ NoParser
    /\ \E file_size \in 1..MaxFile, size \in 1..MaxBlockSize :
          /\ input = [i \in 1..file_size |-> i - 1]
          /\ remote = NewRemote(file_size, size)
    /\ net = [heads |-> 1, gets |-> <<>>, served |-> {}]
    /\ pc = [t \in Threads |-> Idle]

\* thread t calls get_data_at(offset)
ThreadCall(t, offset) ==
    /\ nops < MaxCalls
    /\ pc[t].at \in {"idle", "done"}
    /\ pc' = [pc EXCEPT ![t] = [Idle EXCEPT !.at = "check", !.offset = offset]]
    /\ nops' = nops + 1
    /\ UNCHANGED <<build, blocks, gzi, fai, reader, last, input, loaded, pvars, remote, net>>

\* remote.rs:247-250: lock; contains_key; unlock
ThreadCheck(t) ==
    /\ pc[t].at = "check"
    /\ pc' = [pc EXCEPT ![t].at =
                 IF block_start(remote, pc[t].offset) \in DOMAIN remote.cache
                 THEN "get" ELSE "fetch"]
    /\ UNCHANGED <<build, blocks, gzi, fai, reader, last, nops, input, loaded, pvars,
                   remote, net>>

\* remote.rs:255: fetch_block(block_start)?, the mutex not held
ThreadFetch(t) ==
    /\ pc[t].at = "fetch"
    /\ \E server \in Servers :
         LET b == fetch_block(remote, block_start(remote, pc[t].offset), server)
         IN  /\ net' = [net EXCEPT !.gets = @ \o b.gets]
             /\ pc' = [pc EXCEPT ![t] =
                          IF b.res = "ok" THEN [@ EXCEPT !.at = "insert", !.block = b.data]
                          ELSE [@ EXCEPT !.at = "done", !.res = "err"]]
    /\ UNCHANGED <<build, blocks, gzi, fai, reader, last, nops, input, loaded, pvars, remote>>

\* remote.rs:256-257: lock; insert; unlock
ThreadInsert(t) ==
    /\ pc[t].at = "insert"
    /\ remote' = [remote EXCEPT !.cache =
                     CacheInsert(@, block_start(remote, pc[t].offset), pc[t].block)]
    /\ pc' = [pc EXCEPT ![t].at = "get"]
    /\ UNCHANGED <<build, blocks, gzi, fai, reader, last, nops, input, loaded, pvars, net>>

\* remote.rs:261-269: lock; get(block_start); slice from offset_in_block
ThreadGet(t) ==
    /\ pc[t].at = "get"
    /\ LET key == block_start(remote, pc[t].offset)
           s   == SliceFrom(remote.cache[key], pc[t].offset - key)
       IN  pc' = [pc EXCEPT ![t] = [@ EXCEPT !.at = "done", !.res = s.res, !.data = s.data]]
    /\ UNCHANGED <<build, blocks, gzi, fai, reader, last, nops, input, loaded, pvars,
                   remote, net>>

SharedNext ==
    \E t \in Threads :
        \/ \E offset \in 0..(remote.file_size - 1) : ThreadCall(t, offset)
        \/ ThreadCheck(t)
        \/ ThreadFetch(t)
        \/ ThreadInsert(t)
        \/ ThreadGet(t)

SpecShared == SharedInit /\ [][SharedNext]_vars

\* the GETs for the block at key that the reader accepted
AcceptedFor(key) == {i \in Accepted : net.gets[i].lo = key}

\* the body the i-th GET was answered with
Payload(i) ==
    IF net.gets[i].status = 206 THEN SubSeq(input, net.gets[i].lo + 1, net.gets[i].hi + 1)
    ELSE input

\* C29: however two threads interleave, a block is fetched by at most one
\* GET, the cache holds one payload per block, the whole body of a GET for
\* that block, and a lookup made after the insertion returns the whole of
\* such a payload from the offset asked for.
C29_AtMostOneGetPerBlock ==
    /\ \A key \in 0..(remote.file_size - 1) : Cardinality(AcceptedFor(key)) <= 1
    /\ \A key \in DOMAIN remote.cache :
          /\ key % remote.block_size = 0
          /\ \E i \in AcceptedFor(key) : remote.cache[key] = Payload(i)
    /\ \A t \in Threads :
          /\ pc[t].res # "panic"
          /\ pc[t].at = "done" /\ pc[t].res = "ok" =>
                LET key == block_start(remote, pc[t].offset)
                IN  \E i \in AcceptedFor(key) :
                       pc[t].data = SubSeq(Payload(i), pc[t].offset - key + 1,
                                           Len(Payload(i)))

\* the parts of C29 that do not count GETs
C29_OnePayloadAndCompleteLookups ==
    /\ \A key \in DOMAIN remote.cache :
          /\ key % remote.block_size = 0
          /\ \E i \in AcceptedFor(key) : remote.cache[key] = Payload(i)
    /\ \A t \in Threads :
          /\ pc[t].res # "panic"
          /\ pc[t].at = "done" /\ pc[t].res = "ok" =>
                LET key == block_start(remote, pc[t].offset)
                IN  \E i \in AcceptedFor(key) :
                       pc[t].data = SubSeq(Payload(i), pc[t].offset - key + 1,
                                           Len(Payload(i)))

(***************************************************************************)
(* Claims about fetch_range with an empty or reversed range, under         *)
(* SpecIndexed.                                                            *)
(***************************************************************************)
\* max(0, min(end, length) - start)
RangeBound(length, start, end) ==
    IF Min(end, length) > start THEN Min(end, length) - start ELSE 0

\* C30: for a name in the index and start < length, fetch_range with
\* end <= start returns an empty vector or an error value, never a panic
\* from a negative or wrapped-around byte count; and the bytes a successful
\* fetch_range returns are never more than max(0, min(end, length) - start).
C30_EmptyOrReversedRangeIsEmpty ==
    (/\ last.op = "fetch_range"
     /\ FaiGet(last.name).some
     /\ last.a < FaiGet(last.name).v.length) =>
        /\ last.b <= last.a =>
              /\ last.res \in {"ok", "err"}
              /\ last.res = "ok" => last.data = <<>>
        /\ last.res = "ok" =>
              Len(last.data) <= RangeBound(FaiGet(last.name).v.length, last.a, last.b)

\* what holds of C30: a successful call returns no more than the range, so
\* nothing when end <= start; what does not: a reversed range (end < start)
\* never succeeds, and panics whenever the seek before it does not fail
C30_ReversedRangePanics ==
    (/\ last.op = "fetch_range"
     /\ FaiGet(last.name).some
     /\ last.a < FaiGet(last.name).v.length) =>
        /\ (last.b <= last.a /\ last.res = "ok") => last.data = <<>>
        /\ last.b < last.a => last.res # "ok"
        /\ (last.b < last.a /\ build = "debug") => last.res = "panic"
        /\ last.res = "ok" =>
              Len(last.data) <= RangeBound(FaiGet(last.name).v.length, last.a, last.b)

(***************************************************************************)
(* lib.rs: FastARecord::lines                                              *)
(***************************************************************************)
RECURSIVE LinesScan(_, _, _, _)
\* The memchr_iter map of lib.rs:428-434: i scans raw_seq for LF, out is
\* the lines collected so far.
LinesScan(raw, i, line_start, out) ==
    IF i >= Len(raw) THEN out
    ELSE IF raw[i + 1] = LF
    THEN LinesScan(raw, i + 1, i + 1, Append(out, SubSeq(raw, line_start + 1, i)))
    ELSE LinesScan(raw, i + 1, line_start, out)

\* FastARecord::lines
FastARecord_lines(raw) == LinesScan(raw, 0, 0, <<>>)

RECURSIVE Concat(_)
Concat(ls) == IF ls = <<>> THEN <<>> ELSE Head(ls) \o Concat(Tail(ls))

\* C26: after a read that returned n > 0, lines() holds every line of the
\* raw sequence in order, the last one included when the raw sequence does
\* not end with LF, so the concatenation of lines() is seq().
C26_LinesConcatenateToSeq ==
    (last.op = "read" /\ last.res = "ok" /\ last.n > 0) =>
        Concat(FastARecord_lines(record.raw_seq)) = seq(record.raw_seq)

\* what lines() does return: the lines of the raw sequence that end with LF
C26_LinesDropTheLastLine ==
    (last.op = "read" /\ last.res = "ok" /\ last.n > 0) =>
        LET raw == record.raw_seq
            ls  == FastARecord_lines(raw)
        IN  /\ Len(ls) = Cardinality({i \in 1..Len(raw) : raw[i] = LF})
            /\ \E rest \in {SubSeq(raw, k + 1, Len(raw)) : k \in 0..Len(raw)} :
                  /\ \A i \in 1..Len(rest) : rest[i] # LF
                  /\ Concat(ls) \o rest = seq(raw)
            /\ raw # <<>> => Concat(ls) # seq(raw)

====
